---- MODULE Spec2Model ----
(***************************************************************************)
(* A model of src/main.py: the transcript acquisition service.             *)
(*                                                                         *)
(* Time is counted in clock ticks, TicksPerSec ticks to the second, so     *)
(* that time.time() differences have a fractional part and int() is a real *)
(* truncation.  Python's None is NoneVal, a present value v is Some(v).    *)
(* A dict is a function whose DOMAIN is the set of keys it holds.          *)
(***************************************************************************)
EXTENDS Integers, Sequences, FiniteSets, TLC

\* ------------------------------------------------------------------------
\* Bounds of the model
\* ------------------------------------------------------------------------
TicksPerSec == 2

MaxClockSteps == 3

MaxReadGap == 1

\* ------------------------------------------------------------------------
\* Program constants
\* ------------------------------------------------------------------------
CACHE_TTL_SECONDS == 1800

FAIL_TTL_SECONDS_DEFAULT == 300

\* ------------------------------------------------------------------------
\* Python values
\* ------------------------------------------------------------------------
NoneVal == [none |-> TRUE]

Some(v) == [none |-> FALSE, val |-> v]

IsNone(o) == o.none

Max(a, b) == IF a >= b THEN a ELSE b

\* int(x) of a float x given as a number of ticks: truncation toward zero.
IntOfTicks(x) == IF x >= 0 THEN x \div TicksPerSec ELSE -((-x) \div TicksPerSec)

Secs(s) == s * TicksPerSec

DictSet(d, k, v) == [x \in (DOMAIN d) \cup {k} |-> IF x = k THEN v ELSE d[x]]

DictPop(d, k) == [x \in (DOMAIN d) \ {k} |-> d[x]]

EmptyDict == [x \in {} |-> 0]

Seg(text, start, duration) == [text |-> text, start |-> start, duration |-> duration]

\* ------------------------------------------------------------------------
\* State
\* ------------------------------------------------------------------------
VARIABLES
  now,        \* the reading time.time() gives, in ticks
  nsteps,     \* how many times the clock has advanced (bounded by MaxClockSteps)
  _CACHE,     \* success cache: key -> [ts, data]
  _FAIL_CACHE,\* failure cache: key -> [ts, retry]
  op,         \* the last cache operation called directly, with its result
  lastSet,    \* history: key -> the latest cache_set on it, [t, v]
  lastFailSet,\* history: key -> the latest fail_cache_set on it, [t, c]
  rIn,        \* fetch_with_retry called directly: its arguments
  rOut,       \* ... and how the call ended
  env,        \* os.environ, the variables the service reads: name -> value
  pc,         \* where the /transcript request in flight stands ("idle": none)
  req,        \* the parameters of the request in flight, or of the last one
  atStart,    \* history: the caches as the request found them, and the
              \* clock readings of its cache_get and fail_cache_get
  world,      \* what the caption source does while the request is decided
  sttWorld,   \* the STT world the backend met
  pending,    \* the outcome decided, that the last step stores and returns
  resp,       \* the response to the last request; NoResp while one is in flight
  calls,      \* the calls the request made to the caption source
  sttUse,     \* the request's use of STT: "none", "off", "skipped" or "ran"
  nreq,       \* how many requests have arrived
  sIn,        \* fetch_transcript_segments called directly: its arguments and
              \* what the caption source does during the call
  sOut,       \* ... and how the call ended
  nIn,        \* _normalize_durations called directly: its argument
  nOut,       \* ... and what it returned
  tIn,        \* one STT attempt: the backend and what the audio tools do
  tOut,       \* ... and how it ended, with the temporary directories left
  thr         \* concurrent cache accesses: each thread's position and locals

clockVars == <<now, nsteps>>

storeVars == <<_CACHE, _FAIL_CACHE>>

histVars == <<op, lastSet, lastFailSet>>

retryVars == <<rIn, rOut>>

routeVars == <<env, pc, req, atStart, world, sttWorld, pending, resp, calls, sttUse, nreq>>

vars == <<now, nsteps, _CACHE, _FAIL_CACHE, op, lastSet, lastFailSet, rIn, rOut,
          env, pc, req, atStart, world, sttWorld, pending, resp, calls, sttUse, nreq,
          sIn, sOut, nIn, nOut, tIn, tOut, thr>>

selVars == <<sIn, sOut>>

normVars == <<nIn, nOut>>

tmpVars == <<tIn, tOut>>

unitVars == <<selVars, normVars, tmpVars>>

\* What the actions of one part of the model leave alone.
outsideCache == <<retryVars, routeVars, unitVars, thr>>

outsideRetry == <<clockVars, storeVars, histVars, routeVars, unitVars, thr>>

outsideRoute == <<retryVars, op, unitVars, thr>>

outsideSel == <<clockVars, storeVars, histVars, retryVars, routeVars, normVars, tmpVars, thr>>

outsideNorm == <<clockVars, storeVars, histVars, retryVars, routeVars, selVars, tmpVars, thr>>

outsideTmp == <<clockVars, storeVars, histVars, retryVars, routeVars, selVars, normVars, thr>>

outsideThreads == <<histVars, retryVars, routeVars, unitVars>>

\* ------------------------------------------------------------------------
\* Request keys: (videoId, lang, bool(disable_translate))
\* ------------------------------------------------------------------------
Key(video_id, lang, disable_translate) == <<video_id, lang, disable_translate>>

\* ------------------------------------------------------------------------
\* cache_get / cache_set
\* ------------------------------------------------------------------------
CacheGetBoundaryMut(c, key, t) ==
  IF key \notin DOMAIN c THEN [ret |-> NoneVal, cache |-> c]
  ELSE IF (t - c[key].ts) >= Secs(CACHE_TTL_SECONDS)
       THEN [ret |-> NoneVal, cache |-> DictPop(c, key)]
       ELSE [ret |-> Some(c[key].data), cache |-> c]

CacheGetRefreshMut(c, key, t) ==
  IF key \notin DOMAIN c THEN [ret |-> NoneVal, cache |-> c]
  ELSE IF (t - c[key].ts) > Secs(CACHE_TTL_SECONDS)
       THEN [ret |-> NoneVal, cache |-> DictPop(c, key)]
       ELSE [ret |-> Some(c[key].data),
             cache |-> DictSet(c, key, [ts |-> t, data |-> c[key].data])]

\* cache_get at clock reading t: the returned value and the cache afterwards.
CacheGet(c, key, t) ==
  IF key \notin DOMAIN c THEN [ret |-> NoneVal, cache |-> c]
  ELSE IF (t - c[key].ts) > Secs(CACHE_TTL_SECONDS)
       THEN [ret |-> NoneVal, cache |-> DictPop(c, key)]
       ELSE [ret |-> Some(c[key].data), cache |-> c]

CacheSet(c, key, data, t) == DictSet(c, key, [ts |-> t, data |-> data])

\* ------------------------------------------------------------------------
\* fail_cache_get / fail_cache_set
\* ------------------------------------------------------------------------
FailCacheGetResetsMut(c, key, t1, t2) ==
  IF key \notin DOMAIN c THEN [ret |-> NoneVal, cache |-> c]
  ELSE IF (t1 - c[key].ts) > Secs(c[key].retry)
       THEN [ret |-> NoneVal, cache |-> DictPop(c, key)]
       ELSE [ret |-> Some(Max(1, IntOfTicks(Secs(c[key].retry) - (t2 - c[key].ts)))),
             cache |-> DictSet(c, key, [ts |-> t1, retry |-> c[key].retry])]

FailCacheGetBlindMut(c, key, t1, t2) == [ret |-> NoneVal, cache |-> c]

FailCacheGetNoFloorMut(c, key, t1, t2) ==
  IF key \notin DOMAIN c THEN [ret |-> NoneVal, cache |-> c]
  ELSE IF (t1 - c[key].ts) > Secs(c[key].retry)
       THEN [ret |-> NoneVal, cache |-> DictPop(c, key)]
       ELSE [ret |-> Some(IntOfTicks(Secs(c[key].retry) - (t2 - c[key].ts))),
             cache |-> c]

\* fail_cache_get: t1 is the clock reading of the expiry test, t2 >= t1 the
\* reading of the remaining-time computation.
FailCacheGet(c, key, t1, t2) ==
  IF key \notin DOMAIN c THEN [ret |-> NoneVal, cache |-> c]
  ELSE IF (t1 - c[key].ts) > Secs(c[key].retry)
       THEN [ret |-> NoneVal, cache |-> DictPop(c, key)]
       ELSE [ret |-> Some(Max(1, IntOfTicks(Secs(c[key].retry) - (t2 - c[key].ts)))),
             cache |-> c]

\* retry_after_seconds or FAIL_TTL_SECONDS_DEFAULT: None and 0 are falsy.
OrDefault(retry_after_seconds) ==
  IF IsNone(retry_after_seconds) \/ retry_after_seconds.val = 0
  THEN FAIL_TTL_SECONDS_DEFAULT
  ELSE retry_after_seconds.val

FailCacheSetKeepsMut(c, key, retry_after_seconds, t) ==
  IF key \in DOMAIN c THEN c
  ELSE DictSet(c, key, [ts |-> t, retry |-> OrDefault(retry_after_seconds)])

FailCacheSet(c, key, retry_after_seconds, t) ==
  DictSet(c, key, [ts |-> t, retry |-> OrDefault(retry_after_seconds)])

\* ------------------------------------------------------------------------
\* fetch_with_retry
\* ------------------------------------------------------------------------
\* An error message is a sequence of words; str(e).lower() lowers each word,
\* and "pattern in msg" holds when the pattern's words occur in a row.
Lower(w) ==
  CASE w = "HTTP" -> "http"
    [] w = "Error" -> "error"
    [] w = "Too" -> "too"
    [] w = "Many" -> "many"
    [] w = "Requests" -> "requests"
    [] w = "Video" -> "video"
    [] OTHER -> w

LowerMsg(m) == [i \in 1..Len(m) |-> Lower(m[i])]

Contains(m, pat) ==
  \E i \in 1..(Len(m) - Len(pat) + 1) : SubSeq(m, i, i + Len(pat) - 1) = pat

\* The ValueError fetch_with_retry raises itself on falsy data.
MsgEmptyData == <<"empty", "transcript", "data">>

\* Errors of the upstream: an HTTP 429, its reason phrase, an XML parse error
\* of an empty body, and an error that is none of these.
Msg429 == <<"HTTP", "Error", "429">>

MsgTooMany == <<"Too", "Many", "Requests">>

MsgNoElement == <<"no", "element", "found">>

MsgUnavailable == <<"Video", "unavailable">>

OkOut(data) == [ok |-> TRUE, data |-> data, msg |-> <<>>]

ErrOut(msg) == [ok |-> FALSE, data |-> <<>>, msg |-> msg]

\* A fetch-like operation is a script: its n-th invocation ends as script[n],
\* and every invocation past the script's end as its last entry.
OutcomeAt(script, n) == IF n <= Len(script) THEN script[n] ELSE script[Len(script)]

IsRateLimit(msg) == Contains(msg, <<"429">>) \/ Contains(msg, <<"too", "many", "requests">>)

IsEmptyXmlNeverMut(msg) == FALSE

IsEmptyXml(msg) ==
  \/ Contains(msg, <<"no", "element", "found">>)
  \/ Contains(msg, <<"empty", "transcript">>)
  \/ Contains(msg, <<"empty">>)

ShouldRetryPastLastMut(i, attempts, msg) ==
  i < attempts /\ (IsRateLimit(msg) \/ IsEmptyXml(msg))

ShouldRetryAnyErrorMut(i, attempts, msg) == i < attempts - 1

\* The test of line 494, on the lowered message of the exception.
ShouldRetry(i, attempts, msg) ==
  i < attempts - 1 /\ (IsRateLimit(msg) \/ IsEmptyXml(msg))

\* base_delay * 2 ** i in tenths of a second; random.uniform(0.0, 0.6) more
\* seconds are slept on top of it.
BaseDelayTenths == 12

SleepOf(i) == [i |-> i, base |-> BaseDelayTenths * 2^i]

\* The exception one invocation ends with, or None: what fetch_call raised,
\* or the ValueError raised on falsy data.
RaisedBy(out) ==
  IF out.ok THEN (IF out.data = <<>> THEN Some(MsgEmptyData) ELSE NoneVal)
  ELSE Some(out.msg)

Returned(data, ncalls, sleeps) ==
  [raised |-> FALSE, ret |-> data, err |-> <<>>, calls |-> ncalls, sleeps |-> sleeps]

Raised(err, ncalls, sleeps) ==
  [raised |-> TRUE, ret |-> NoneVal, err |-> err, calls |-> ncalls, sleeps |-> sleeps]

\* The loop of fetch_with_retry from iteration i on; the operation has been
\* invoked base times before the call and i times in it.
RECURSIVE RetryLoop(_, _, _, _, _)
RetryLoop(script, base, attempts, i, sleeps) ==
  IF i >= attempts THEN Returned(NoneVal, i, sleeps)
  ELSE LET exc == RaisedBy(OutcomeAt(script, base + i + 1)) IN
       IF IsNone(exc)
       THEN Returned(Some(OutcomeAt(script, base + i + 1).data), i + 1, sleeps)
       ELSE IF ShouldRetry(i, attempts, LowerMsg(exc.val))
            THEN RetryLoop(script, base, attempts, i + 1, Append(sleeps, SleepOf(i)))
            ELSE Raised(exc.val, i + 1, sleeps)

FetchWithRetry(script, base, attempts) == RetryLoop(script, base, attempts, 0, <<>>)

DEFAULT_ATTEMPTS == 5

\* ------------------------------------------------------------------------
\* The caption source, as fetch_transcript_segments sees it
\* ------------------------------------------------------------------------
\* A world is what the upstream does during one request:
\*   listing   whether the installed client has list_transcripts
\*   list_out  how list_transcripts ends: "ok", "no_transcript"
\*             (TranscriptsDisabled / NoTranscriptFound) or "error"
\*   tracks    the tracks in enumeration order, each with code, generated,
\*             translatable, the script of its fetch(), whether translate()
\*             raises, and the script of the translated handle's fetch()
\*   direct    the script of get_transcript, one entry per call
Track(code, generated, translatable, fetch, trans_raises, trans_fetch) ==
  [code |-> code, generated |-> generated, translatable |-> translatable,
   fetch |-> fetch, trans_raises |-> trans_raises, trans_fetch |-> trans_fetch]

World(listing, list_out, tracks, direct) ==
  [listing |-> listing, list_out |-> list_out, tracks |-> tracks, direct |-> direct]

\* str.lower() on the language codes in use.
LowerCode(c) ==
  CASE c = "EN" -> "en"
    [] c = "AUTO" -> "auto"
    [] c = "Auto" -> "auto"
    [] c = "en-US" -> "en-us"
    [] c = "en-GB" -> "en-gb"
    [] OTHER -> c

\* lang or "en"
OrEn(lang) == IF lang = "" THEN "en" ELSE lang

PreferredLangs(lang) == <<lang, "en", "en-US", "en-GB">>

\* [{"text": s["text"], "start": s["start"], "duration": s["duration"]} for s in data]
Project(data) ==
  [i \in 1..Len(data) |-> Seg(data[i].text, data[i].start, data[i].duration)]

\* The calls made to the caption source, in order.
CallList == [call |-> "list_transcripts"]

CallFind(kind, l) == [call |-> kind, lang |-> l]

CallFetch(i) == [call |-> "fetch", track |-> i]

CallTranslate(i, l) == [call |-> "translate", track |-> i, lang |-> l]

CallFetchTranslated(i) == [call |-> "fetch_translated", track |-> i]

CallDirect(langs) == [call |-> "get_transcript", langs |-> langs]

Repeat(x, n) == [j \in 1..n |-> x]

\* The running state of one fetch_transcript_segments call: whether it has
\* returned, with what, the calls so far, and how often each track's fetch(),
\* each translated handle's fetch() and get_transcript have been invoked.
SelStart(w) ==
  [done |-> FALSE, ret |-> NoneVal, log |-> <<>>,
   cnt |-> [i \in 1..Len(w.tracks) |-> 0],
   tcnt |-> [i \in 1..Len(w.tracks) |-> 0],
   dcnt |-> 0]

SelReturn(st, ret) == [st EXCEPT !.done = TRUE, !.ret = ret]

SelLog(st, c) == [st EXCEPT !.log = Append(st.log, c)]

\* data = fetch_with_retry(lambda: tr.fetch()); return [...] -- or the
\* exception is caught by the caller's except clause and st goes on.
Fetched(st, i, r) ==
  LET st1 == [st EXCEPT !.cnt[i] = st.cnt[i] + r.calls,
                        !.log = st.log \o Repeat(CallFetch(i), r.calls)]
  IN IF r.raised THEN st1 ELSE SelReturn(st1, Some(Project(r.ret.val)))

TryFetchTwiceAsOftenMut(st, w, i) ==
  Fetched(st, i, FetchWithRetry(w.tracks[i].fetch, st.cnt[i],
                                DEFAULT_ATTEMPTS + DEFAULT_ATTEMPTS))

TryFetch(st, w, i) ==
  Fetched(st, i, FetchWithRetry(w.tracks[i].fetch, st.cnt[i], DEFAULT_ATTEMPTS))

\* The index of the track find_manually_created_transcript([l]) or
\* find_generated_transcript([l]) returns, 0 when it raises NoTranscriptFound.
FindTrack(w, generated, l) ==
  LET hits == {i \in 1..Len(w.tracks) :
                 w.tracks[i].generated = generated /\ w.tracks[i].code = l}
  IN IF hits = {} THEN 0 ELSE CHOOSE i \in hits : \A j \in hits : i <= j

\* One round of the loops of tiers 1 and 3.
FindAndFetch(st, w, generated, l) ==
  LET kind == IF generated THEN "find_generated_transcript"
              ELSE "find_manually_created_transcript"
      st1 == SelLog(st, CallFind(kind, l))
      i == FindTrack(w, generated, l)
  IN IF i = 0 THEN st1 ELSE TryFetch(st1, w, i)

RECURSIVE ExactTier(_, _, _, _, _)
ExactTier(st, w, generated, langs, j) ==
  IF st.done \/ j > Len(langs) THEN st
  ELSE ExactTier(FindAndFetch(st, w, generated, langs[j]), w, generated, langs, j + 1)

FetchedTranslatedGivesUpMut(st, w, i, r) ==
  LET st2 == [st EXCEPT !.tcnt[i] = st.tcnt[i] + r.calls,
                        !.log = st.log \o Repeat(CallFetchTranslated(i), r.calls)]
  IN IF ~r.raised THEN SelReturn(st2, Some(Project(r.ret.val)))
     ELSE SelReturn(st2, NoneVal)

\* Lines 558-568: the translated handle's fetch has ended as r; on failure
\* the original track is fetched.
FetchedTranslated(st, w, i, r) ==
  LET st2 == [st EXCEPT !.tcnt[i] = st.tcnt[i] + r.calls,
                        !.log = st.log \o Repeat(CallFetchTranslated(i), r.calls)]
  IN IF ~r.raised THEN SelReturn(st2, Some(Project(r.ret.val)))
     ELSE TryFetch(st2, w, i)

\* Lines 556-559: tr.translate(...) has been called.
Translated(st, w, i) ==
  IF w.tracks[i].trans_raises THEN st
  ELSE FetchedTranslated(st, w, i,
         FetchWithRetry(w.tracks[i].trans_fetch, st.tcnt[i], DEFAULT_ATTEMPTS))

\* One round of the loop of tier 2, on track i.
TranslateStep(st, w, lang, i) ==
  IF ~w.tracks[i].translatable THEN st
  ELSE IF LowerCode(w.tracks[i].code) = LowerCode(OrEn(lang)) THEN st
  ELSE Translated(SelLog(st, CallTranslate(i, OrEn(lang))), w, i)

RECURSIVE TranslateTier(_, _, _, _)
TranslateTier(st, w, lang, i) ==
  IF st.done \/ i > Len(w.tracks) THEN st
  ELSE TranslateTier(TranslateStep(st, w, lang, i), w, lang, i + 1)

\* The loops of tiers 4 and 5: every track that passes the filter, in
\* enumeration order; filter is "manual", "generated" or "any".
Passes(tr, filter) ==
  CASE filter = "manual" -> ~tr.generated
    [] filter = "generated" -> tr.generated
    [] OTHER -> TRUE

RECURSIVE ScanTier(_, _, _, _)
ScanTier(st, w, filter, i) ==
  IF st.done \/ i > Len(w.tracks) THEN st
  ELSE ScanTier(IF Passes(w.tracks[i], filter) THEN TryFetch(st, w, i) ELSE st,
                w, filter, i + 1)

\* YouTubeTranscriptApi.get_transcript(video_id, languages=langs): returns
\* whatever the call gives, an empty list too, without retry.
DirectFetch(st, w, langs) ==
  LET out == OutcomeAt(w.direct, st.dcnt + 1)
      st1 == [SelLog(st, CallDirect(langs)) EXCEPT !.dcnt = st.dcnt + 1]
  IN IF out.ok THEN SelReturn(st1, Some(Project(out.data))) ELSE st1

SimpleCandidatesPreferredOnlyMut(preferred_langs) == <<preferred_langs>>

\* try_get_transcript_simple
SimpleCandidates(preferred_langs) == <<preferred_langs, <<"en">>, <<"en-US">>, <<"en-GB">>>>

RECURSIVE SimpleLoop(_, _, _, _)
SimpleLoop(st, w, candidates, j) ==
  IF st.done \/ j > Len(candidates) THEN st
  ELSE SimpleLoop(DirectFetch(st, w, candidates[j]), w, candidates, j + 1)

TryGetTranscriptSimple(w, preferred_langs) ==
  SimpleLoop(SelStart(w), w, SimpleCandidates(preferred_langs), 1)

Tier1SkippedMut(st, w, lang) == st

Tier1(st, w, lang) == ExactTier(st, w, FALSE, PreferredLangs(lang), 1)

Tier2AlwaysMut(st, w, lang, disable_translate) ==
  IF st.done THEN st ELSE TranslateTier(st, w, lang, 1)

Tier2(st, w, lang, disable_translate) ==
  IF disable_translate \/ st.done THEN st ELSE TranslateTier(st, w, lang, 1)

Tier3(st, w, lang) == ExactTier(st, w, TRUE, PreferredLangs(lang), 1)

Tier4(st, w, lang) ==
  IF st.done \/ LowerCode(lang) # "auto" THEN st
  ELSE ScanTier(ScanTier(st, w, "manual", 1), w, "generated", 1)

Tier5(st, w) == ScanTier(st, w, "any", 1)

Tier6SkippedMut(st, w, lang) == st

Tier6(st, w, lang) == IF st.done THEN st ELSE DirectFetch(st, w, PreferredLangs(lang))

CascadeGeneratedFirstMut(w, lang, disable_translate) ==
  Tier6(Tier5(Tier4(Tier2(Tier1(Tier3(SelLog(SelStart(w), CallList), w, lang),
                                w, lang),
                          w, lang, disable_translate),
                    w, lang),
              w),
        w, lang)

\* The tiers, after list_transcripts has returned the track list.
Cascade(w, lang, disable_translate) ==
  Tier6(Tier5(Tier4(Tier3(Tier2(Tier1(SelLog(SelStart(w), CallList), w, lang),
                                w, lang, disable_translate),
                          w, lang),
                    w, lang),
              w),
        w, lang)

\* fetch_transcript_segments: the value returned (None when nothing was
\* obtained) and the calls made.  raised is whether an exception leaves the
\* function: every one is caught inside it (lines 617-620), so it never is.
SelResult(st) == [raised |-> FALSE, ret |-> st.ret, log |-> st.log]

FetchTranscriptSegmentsDirectMut(w, lang, disable_translate) ==
  SelResult(IF ~w.listing THEN TryGetTranscriptSimple(w, PreferredLangs(lang))
            ELSE IF w.list_out # "ok"
                 THEN Tier6(SelLog(SelStart(w), CallList), w, lang)
            ELSE Cascade(w, lang, disable_translate))

FetchTranscriptSegments(w, lang, disable_translate) ==
  SelResult(IF ~w.listing THEN TryGetTranscriptSimple(w, PreferredLangs(lang))
            ELSE IF w.list_out # "ok" THEN SelLog(SelStart(w), CallList)
            ELSE Cascade(w, lang, disable_translate))

\* ------------------------------------------------------------------------
\* _normalize_durations
\* ------------------------------------------------------------------------
\* Segment times are floats of seconds, held as whole numbers of half
\* milliseconds.  round(x, 3) leaves a whole number of milliseconds alone and
\* rounds a half to the even millisecond.
RoundMs(x) ==
  IF x % 2 = 0 THEN x
  ELSE IF ((x - 1) \div 2) % 2 = 0 THEN x - 1 ELSE x + 1

\* seg.get("start", 0.0) and seg.get("duration", 0.0)
StartOf(seg) == IF "start" \in DOMAIN seg THEN seg.start ELSE 0

\* segments[j].get("start", start)
StartOr(seg, default) == IF "start" \in DOMAIN seg THEN seg.start ELSE default

DurationOf(seg) == IF "duration" \in DOMAIN seg THEN seg.duration ELSE 0

FilledNoClampMut(segments, i) ==
  LET n == Len(segments)
      start == StartOf(segments[i])
  IN IF i < n THEN RoundMs(StartOr(segments[i + 1], start) - start)
     ELSE IF n >= 2 THEN RoundMs(start - StartOr(segments[i - 1], start))
     ELSE 0

\* The duration filled in for segment i of n (lines 196-205).
Filled(segments, i) ==
  LET n == Len(segments)
      start == StartOf(segments[i])
  IN IF i < n THEN Max(0, RoundMs(StartOr(segments[i + 1], start) - start))
     ELSE IF n >= 2 THEN Max(0, RoundMs(start - StartOr(segments[i - 1], start)))
     ELSE 0

NormalizeSegAlwaysFillMut(segments, i) ==
  LET seg == segments[i]
  IN [k \in (DOMAIN seg) \cup {"start", "duration"} |->
        IF k = "start" THEN StartOf(seg)
        ELSE IF k = "duration" THEN Filled(segments, i)
        ELSE seg[k]]

NormalizeSeg(segments, i) ==
  LET seg == segments[i]
      dur == IF DurationOf(seg) <= 0 THEN Filled(segments, i) ELSE DurationOf(seg)
  IN [k \in (DOMAIN seg) \cup {"start", "duration"} |->
        IF k = "start" THEN StartOf(seg)
        ELSE IF k = "duration" THEN dur
        ELSE seg[k]]

\* _normalize_durations on an Optional list: None and [] come back as they are.
NormalizeDurations(segs) ==
  IF IsNone(segs) \/ segs.val = <<>> THEN segs
  ELSE Some([i \in 1..Len(segs.val) |-> NormalizeSeg(segs.val, i)])

\* ------------------------------------------------------------------------
\* The STT backends
\* ------------------------------------------------------------------------
\* What the audio tools and the transcription services do during one request:
\*   download   whether _download_audio_tmp yields a file
\*   whisper    what the Whisper client gives: kind "none" (no key, no
\*              package, a failed call), "text" (flat text, no segments) or
\*              "segments" (items with text, start, end)
\*   api_key    (api_key_override or GOOGLE_API_KEY), before strip()
\*   genai      whether google.generativeai imports and configures
\*   ffmpeg     how the split ends: "missing", "fail", "noparts" or "ok"
\*   chunks     the parts a successful split leaves; whole: the unsplit file.
\*              Each is [text, fails, dur]: the transcript text Gemini gives,
\*              whether the upload or the generation raises, and the
\*              duration ffprobe reports (None when the probe fails)
SttWorld(download, whisper, api_key, genai, ffmpeg, chunks, whole) ==
  [download |-> download, whisper |-> whisper, api_key |-> api_key, genai |-> genai,
   ffmpeg |-> ffmpeg, chunks |-> chunks, whole |-> whole]

Chunk(text, fails, dur) == [text |-> text, fails |-> fails, dur |-> dur]

\* str.strip() and str.lower() on the strings in use.
StripStr(x) ==
  CASE x = " " -> ""
    [] x = " 0 " -> "0"
    [] x = " Gemini " -> "Gemini"
    [] x = " hello " -> "hello"
    [] OTHER -> x

LowerStr(x) ==
  CASE x = "Gemini" -> "gemini"
    [] x = "OpenAI" -> "openai"
    [] x = "Local" -> "local"
    [] OTHER -> x

\* _whisper_transcribe_segments
WhisperTranscribeSegments(sw) ==
  CASE sw.whisper.kind = "segments" ->
         Some([i \in 1..Len(sw.whisper.segments) |->
                 LET x == sw.whisper.segments[i]
                 IN Seg(x.text, x.start, Max(0, x.end - x.start))])
    [] sw.whisper.kind = "text" ->
         IF StripStr(sw.whisper.text) = "" THEN NoneVal
         ELSE Some(<<Seg(sw.whisper.text, 0, 0)>>)
    [] OTHER -> NoneVal

\* _stt_fallback
SttFallback(sw) ==
  IF ~sw.download THEN NoneVal
  ELSE NormalizeDurations(WhisperTranscribeSegments(sw))

\* _split_audio_ffmpeg: the parts handed to Gemini.
SplitAudioFfmpeg(sw) == IF sw.ffmpeg = "ok" THEN sw.chunks ELSE <<sw.whole>>

\* The loop of _gemini_transcribe_files from part j on.
RECURSIVE GeminiLoop(_, _, _, _)
GeminiLoop(parts, j, offset, all_segments) ==
  IF j > Len(parts) THEN all_segments
  ELSE LET p == parts[j] IN
       IF p.fails \/ StripStr(p.text) = ""
       THEN GeminiLoop(parts, j + 1, offset, all_segments)
       ELSE GeminiLoop(parts, j + 1,
                       offset + (IF IsNone(p.dur) THEN 0 ELSE p.dur.val),
                       Append(all_segments, Seg(StripStr(p.text), offset, 0)))

\* _gemini_transcribe_files
GeminiTranscribeFiles(parts, sw) ==
  IF StripStr(sw.api_key) = "" THEN NoneVal
  ELSE IF ~sw.genai THEN NoneVal
  ELSE LET all_segments == GeminiLoop(parts, 1, 0, <<>>)
       IN IF all_segments = <<>> THEN NoneVal
          ELSE NormalizeDurations(Some(all_segments))

\* ------------------------------------------------------------------------
\* The /transcript route: what a request that missed both caches decides
\* ------------------------------------------------------------------------
\* os.getenv(name, default)
Getenv(e, name, default) == IF name \in DOMAIN e THEN e[name] ELSE default

\* os.getenv("ENABLE_STT", "1").strip() != "0"
EnableEnv(e) == StripStr(Getenv(e, "ENABLE_STT", "1")) # "0"

BackendOfConfigFirstMut(r, e) ==
  LowerStr(StripStr(IF "STT_BACKEND" \in DOMAIN e THEN e["STT_BACKEND"]
                    ELSE IF r.sttBackend # "" THEN r.sttBackend ELSE "openai"))

\* (sttBackend or os.getenv("STT_BACKEND", "openai")).strip().lower(); a
\* sttBackend that is not given (None) is held as "", which is falsy too.
BackendOf(r, e) ==
  LowerStr(StripStr(IF r.sttBackend # "" THEN r.sttBackend
                    ELSE Getenv(e, "STT_BACKEND", "openai")))

\* int(x) of a string; None stands for the ValueError.
ParseInt(x) ==
  CASE x = "300" -> Some(300)
    [] x = "60" -> Some(60)
    [] OTHER -> NoneVal

\* bool(x) of an Optional list
Truthy(o) == ~IsNone(o) /\ o.val # <<>>

KeyOf(r) == Key(r.videoId, r.lang, r.disableTranslate)

\* The if/elif on the backend (lines 660-680, 697-717, 732-753): whether an
\* exception leaves it, the segments it yields, whether a backend was started.
RunBackend(backend, e, sw) ==
  CASE backend = "gemini" ->
         IF ~sw.download THEN [raised |-> FALSE, segs |-> NoneVal, ran |-> TRUE]
         ELSE IF IsNone(ParseInt(Getenv(e, "GEMINI_SEGMENT_SEC", "300")))
              THEN [raised |-> TRUE, segs |-> NoneVal, ran |-> TRUE]
              ELSE [raised |-> FALSE,
                    segs |-> GeminiTranscribeFiles(SplitAudioFfmpeg(sw), sw),
                    ran |-> TRUE]
    [] backend = "openai" -> [raised |-> FALSE, segs |-> SttFallback(sw), ran |-> TRUE]
    [] OTHER -> [raised |-> FALSE, segs |-> NoneVal, ran |-> FALSE]

\* ------------------------------------------------------------------------
\* The temporary directories of an STT attempt
\* ------------------------------------------------------------------------
\* tempfile.mkdtemp(prefix="yt_stt_") and tempfile.mkdtemp(prefix="yt_stt_seg_")
AudioDir == "yt_stt_"

PartsDir == "yt_stt_seg_"

\* _download_audio_tmp: the directories it leaves (its own, when it returns a
\* file; it removes it on every failure after mkdtemp).
DownloadAudioTmpDirs(sw) == IF sw.download THEN {AudioDir} ELSE {}

\* _split_audio_ffmpeg: the directories it leaves.  A missing ffmpeg creates
\* none and a failed run removes out_dir; a run that ends well keeps out_dir,
\* whether it holds parts or not.
SplitAudioFfmpegDirs(sw) == IF sw.ffmpeg \in {"ok", "noparts"} THEN {PartsDir} ELSE {}

\* parts[0].parent: out_dir for real parts, the audio directory when the
\* split fell back to [input_path].
PartsParent(sw) == IF sw.ffmpeg = "ok" THEN PartsDir ELSE AudioDir

\* The finally blocks of the Gemini branches (lines 667-673, 704-710,
\* 739-746): rmtree(audio.parent), then rmtree(parts[0].parent) when parts is
\* bound and lies elsewhere.
GeminiCleanup(dirs, parts_bound, parent) ==
  (dirs \ {AudioDir}) \ (IF parts_bound /\ parent # AudioDir THEN {parent} ELSE {})

\* The directories left when the if/elif on the backend has ended.
TempDirsLeft(backend, e, sw) ==
  CASE backend = "gemini" ->
         IF ~sw.download THEN DownloadAudioTmpDirs(sw)
         ELSE IF IsNone(ParseInt(Getenv(e, "GEMINI_SEGMENT_SEC", "300")))
              THEN GeminiCleanup(DownloadAudioTmpDirs(sw), FALSE, AudioDir)
              ELSE GeminiCleanup(DownloadAudioTmpDirs(sw) \cup SplitAudioFfmpegDirs(sw),
                                 TRUE, PartsParent(sw))
    [] backend = "openai" -> DownloadAudioTmpDirs(sw) \ {AudioDir}
    [] OTHER -> {}

\* The directories mkdtemp has made for the attempt and that a later step
\* had to remove.
TempDirsHeld(backend, e, sw) ==
  CASE backend = "gemini" ->
         IF ~sw.download THEN {}
         ELSE IF IsNone(ParseInt(Getenv(e, "GEMINI_SEGMENT_SEC", "300")))
              THEN DownloadAudioTmpDirs(sw)
              ELSE DownloadAudioTmpDirs(sw) \cup SplitAudioFfmpegDirs(sw)
    [] backend = "openai" -> DownloadAudioTmpDirs(sw)
    [] OTHER -> {}

\* What the request goes on to do: store data and return it, store a cooldown
\* and answer 429, or answer an error at once.  sel and stt tell whether the
\* caption source and an STT backend were used.
CacheOutcome(data, via, log, sel, stt) ==
  [kind |-> "cache_set", data |-> data, retry |-> 0, status |-> 200, via |-> via,
   log |-> log, sel |-> sel, stt |-> stt]

FailOutcome(retry, via, log, sel, stt) ==
  [kind |-> "fail_set", data |-> <<>>, retry |-> retry, status |-> 429, via |-> via,
   log |-> log, sel |-> sel, stt |-> stt]

ErrorOutcome(status, via, log, sel, stt) ==
  [kind |-> "http_error", data |-> <<>>, retry |-> 0, status |-> status, via |-> via,
   log |-> log, sel |-> sel, stt |-> stt]

\* Whether the if/elif started a backend or skipped an unknown one.
SttUse(b) == IF b.ran THEN "ran" ELSE "skipped"

\* Lines 682-684: the forced backend has ended as b.
Forced(b) ==
  IF b.raised THEN ErrorOutcome(500, "force_stt", <<>>, FALSE, SttUse(b))
  ELSE IF Truthy(b.segs) THEN CacheOutcome(b.segs.val, "force_stt", <<>>, FALSE, SttUse(b))
  ELSE ErrorOutcome(502, "force_stt", <<>>, FALSE, SttUse(b))

\* Lines 652-684: forceSTT.
ForceStt(r, e, sw) ==
  IF ~EnableEnv(e) THEN ErrorOutcome(400, "force_stt", <<>>, FALSE, "off")
  ELSE Forced(RunBackend(BackendOf(r, e), e, sw))

\* Lines 718-724 and 754-764: the fallback backend has ended as b.
FellBack(b, retry, via, log) ==
  IF b.raised THEN ErrorOutcome(500, via, log, TRUE, SttUse(b))
  ELSE IF Truthy(b.segs) THEN CacheOutcome(b.segs.val, via, log, TRUE, SttUse(b))
  ELSE FailOutcome(retry, via, log, TRUE, SttUse(b))

SttOrCooldownUnaskedMut(r, e, sw, retry, via, log) ==
  IF EnableEnv(e)
  THEN FellBack(RunBackend(BackendOf(r, e), e, sw), retry, via, log)
  ELSE FailOutcome(retry, via, log, TRUE, "off")

SttOrCooldownNoRecordMut(r, e, sw, retry, via, log) ==
  IF r.sttFallback /\ EnableEnv(e)
  THEN FellBack(RunBackend(BackendOf(r, e), e, sw), retry, via, log)
  ELSE ErrorOutcome(429, via, log, TRUE, "off")

\* Lines 692-724 and 727-764: the STT fallback, then the cooldown.
SttOrCooldown(r, e, sw, retry, via, log) ==
  IF r.sttFallback /\ EnableEnv(e)
  THEN FellBack(RunBackend(BackendOf(r, e), e, sw), retry, via, log)
  ELSE FailOutcome(retry, via, log, TRUE, "off")

UpstreamedNoDataAs120Mut(r, e, sw, f) ==
  IF ~Truthy(f.ret) THEN SttOrCooldown(r, e, sw, 120, "exception", f.log)
  ELSE CacheOutcome(f.ret.val, "captions", f.log, TRUE, "none")

\* Lines 686-767: fetch_transcript_segments has ended as f.
Upstreamed(r, e, sw, f) ==
  IF f.raised THEN SttOrCooldown(r, e, sw, 120, "exception", f.log)
  ELSE IF ~Truthy(f.ret) THEN SttOrCooldown(r, e, sw, 300, "no_data", f.log)
  ELSE CacheOutcome(f.ret.val, "captions", f.log, TRUE, "none")

Upstream(r, e, w, sw) ==
  Upstreamed(r, e, sw, FetchTranscriptSegments(w, r.lang, r.disableTranslate))

Decide(r, e, w, sw) == IF r.forceSTT THEN ForceStt(r, e, sw) ELSE Upstream(r, e, w, sw)

\* A response: the status, the body of a 200, the Retry-After of a 429, and
\* the place in the route that produced it.
Response(status, body, retry_after, via) ==
  [status |-> status, body |-> body, retry_after |-> retry_after, via |-> via]

\* ------------------------------------------------------------------------
\* The clock
\* ------------------------------------------------------------------------
\* The amounts of time that pass between two operations on the success
\* cache: one tick, and the length of the success TTL.
CacheDeltas == {1, Secs(CACHE_TTL_SECONDS)}

\* ... and on the failure cache: one tick, a second, and the cooldown the
\* exception path of the route passes.
FailDeltas == {1, Secs(1), Secs(120)}

TickBy(deltas) ==
  /\ nsteps < MaxClockSteps
  /\ \E d \in deltas : now' = now + d
  /\ nsteps' = nsteps + 1

CacheTick ==
  /\ TickBy(CacheDeltas)
  /\ UNCHANGED <<_CACHE, _FAIL_CACHE, op, lastSet, lastFailSet, outsideCache>>

FailTick ==
  /\ TickBy(FailDeltas)
  /\ UNCHANGED <<_CACHE, _FAIL_CACHE, op, lastSet, lastFailSet, outsideCache>>

\* ------------------------------------------------------------------------
\* The cache operations called directly
\* ------------------------------------------------------------------------
CacheKeys == {Key("V1", "en", FALSE), Key("V2", "en", TRUE)}

SegsA == <<Seg("a", 0, 2)>>

SegsB == <<Seg("b", 0, 1), Seg("c", 1, 1)>>

CacheValues == {<<>>, SegsB}

\* Cooldowns a caller passes: none, 0, a short one, and the one the exception
\* path of the route uses.
CooldownArgs == {NoneVal, Some(0), Some(1), Some(120), Some(0 - 1)}

NoOp == [name |-> "none"]

\* Both caches start empty, at clock reading 0.
InitStore ==
  /\ now = 0
  /\ nsteps = 0
  /\ _CACHE = EmptyDict
  /\ _FAIL_CACHE = EmptyDict
  /\ op = NoOp
  /\ lastSet = EmptyDict
  /\ lastFailSet = EmptyDict

NotRun == [state |-> "not run"]

IdleRetry ==
  /\ rIn = NotRun
  /\ rOut = NotRun

IdleSel == sIn = NotRun /\ sOut = NotRun

IdleNorm == nIn = NotRun /\ nOut = NotRun

IdleTmp == tIn = NotRun /\ tOut = NotRun

IdleThreads == thr = <<>>

NoReq == [state |-> "none"]

NoWorld == [state |-> "none"]

NoResp == [state |-> "none"]

IdleRoute ==
  /\ env = EmptyDict
  /\ pc = "idle"
  /\ req = NoReq
  /\ atStart = NoReq
  /\ world = NoWorld
  /\ sttWorld = NoWorld
  /\ pending = NoResp
  /\ resp = NoResp
  /\ calls = <<>>
  /\ sttUse = "none"
  /\ nreq = 0

InitCache ==
  /\ InitStore
  /\ IdleRetry
  /\ IdleRoute
  /\ IdleSel /\ IdleNorm /\ IdleTmp /\ IdleThreads

DoCacheSet ==
  \E k \in CacheKeys, v \in CacheValues :
    /\ _CACHE' = CacheSet(_CACHE, k, v, now)
    /\ lastSet' = DictSet(lastSet, k, [t |-> now, v |-> v])
    /\ op' = [name |-> "cache_set", key |-> k]
    /\ UNCHANGED <<now, nsteps, _FAIL_CACHE, lastFailSet, outsideCache>>

DoCacheGet ==
  \E k \in CacheKeys :
    LET r == CacheGet(_CACHE, k, now) IN
    /\ _CACHE' = r.cache
    /\ op' = [name |-> "cache_get", key |-> k, t |-> now, ret |-> r.ret]
    /\ UNCHANGED <<now, nsteps, _FAIL_CACHE, lastSet, lastFailSet, outsideCache>>

DoFailCacheSet ==
  \E k \in CacheKeys, c \in CooldownArgs :
    /\ _FAIL_CACHE' = FailCacheSet(_FAIL_CACHE, k, c, now)
    /\ lastFailSet' = DictSet(lastFailSet, k, [t |-> now, c |-> c])
    /\ op' = [name |-> "fail_cache_set", key |-> k, had |-> k \in DOMAIN _FAIL_CACHE]
    /\ UNCHANGED <<now, nsteps, _CACHE, lastSet, outsideCache>>

\* fail_cache_get reads the clock twice; gap ticks pass between the readings.
DoFailCacheGet ==
  \E k \in CacheKeys, gap \in 0..MaxReadGap :
    LET r == FailCacheGet(_FAIL_CACHE, k, now, now + gap) IN
    /\ gap > 0 => nsteps < MaxClockSteps
    /\ _FAIL_CACHE' = r.cache
    /\ now' = now + gap
    /\ nsteps' = IF gap > 0 THEN nsteps + 1 ELSE nsteps
    /\ op' = [name |-> "fail_cache_get", key |-> k, t |-> now, ret |-> r.ret]
    /\ UNCHANGED <<_CACHE, lastSet, lastFailSet, outsideCache>>

NextCache == CacheTick \/ DoCacheSet \/ DoCacheGet

SpecCache == InitCache /\ [][NextCache]_vars

NextFailCache == FailTick \/ DoFailCacheSet \/ DoFailCacheGet

SpecFailCache == InitCache /\ [][NextFailCache]_vars

\* ------------------------------------------------------------------------
\* fetch_with_retry called directly
\* ------------------------------------------------------------------------
MaxAttempts == 5

RetryOutcomes ==
  {OkOut(SegsA), OkOut(<<>>), ErrOut(Msg429), ErrOut(MsgTooMany),
   ErrOut(MsgNoElement), ErrOut(MsgUnavailable)}

InitRetry ==
  /\ InitStore
  /\ IdleRoute
  /\ IdleSel /\ IdleNorm /\ IdleTmp /\ IdleThreads
  /\ rOut = NotRun
  /\ \E script \in [1..MaxAttempts -> RetryOutcomes], attempts \in 0..MaxAttempts :
       rIn = [script |-> script, attempts |-> attempts]

CallFetchWithRetry ==
  /\ rOut = NotRun
  /\ rOut' = FetchWithRetry(rIn.script, 0, rIn.attempts)
  /\ UNCHANGED <<rIn, outsideRetry>>

NextRetry == CallFetchWithRetry

SpecRetry == InitRetry /\ [][NextRetry]_vars

\* ------------------------------------------------------------------------
\* C1: a cache_get on a key returns the value of the latest cache_set on it
\* as long as at most 1800 s have passed since that set, and None after.
\* ------------------------------------------------------------------------
C1_GetAfterSet ==
  (op.name = "cache_get" /\ op.key \in DOMAIN lastSet) =>
    LET s == lastSet[op.key] IN
    op.ret = IF op.t - s.t <= Secs(CACHE_TTL_SECONDS) THEN Some(s.v) ELSE NoneVal

\* A get exactly 1800 s after the set returned the value.
C1_Witness ==
  /\ op.name = "cache_get"
  /\ op.key \in DOMAIN lastSet
  /\ op.t - lastSet[op.key].t = Secs(CACHE_TTL_SECONDS)
  /\ op.ret = Some(SegsB)

MaxRouteSteps == 3

\* One tick, the cooldown of the no-data path, and the success TTL.
RouteDeltas == {1, Secs(FAIL_TTL_SECONDS_DEFAULT), Secs(CACHE_TTL_SECONDS)}

\* What the caption source returns: items with text, start and duration,
\* and at times more.
RawEn == <<[text |-> "hello", start |-> 0, duration |-> 4000]>>

RawFr == <<[text |-> "bonjour", start |-> 0, duration |-> 4000]>>

RawGen == <<[text |-> "helo", start |-> 0, duration |-> 3000, extra |-> "asr"]>>

Forever429 == <<ErrOut(Msg429)>>

ManualEn(fetch) == Track("en", FALSE, TRUE, fetch, FALSE, Forever429)

ManualFr(fetch) == Track("fr", FALSE, TRUE, fetch, FALSE, Forever429)

GeneratedEn(fetch) == Track("en", TRUE, TRUE, fetch, TRUE, Forever429)

RouteWorlds ==
  { \* a manual and a generated English track, both fetchable at once
    World(TRUE, "ok", <<ManualEn(<<OkOut(RawEn)>>), GeneratedEn(<<OkOut(RawGen)>>)>>, Forever429),
    \* manual tracks in both languages, fetchable after transient failures
    World(TRUE, "ok", <<ManualFr(<<ErrOut(MsgTooMany), OkOut(RawFr)>>),
                        ManualEn(<<ErrOut(Msg429), OkOut(<<>>), OkOut(RawEn)>>)>>, Forever429),
    \* every fetch is rate limited, for good
    World(TRUE, "ok", <<ManualEn(Forever429), GeneratedEn(Forever429)>>, Forever429),
    \* no tracks, and get_transcript returns an empty list
    World(TRUE, "ok", <<>>, <<OkOut(<<>>)>>),
    \* list_transcripts raises a rate-limit error
    World(TRUE, "error", <<>>, Forever429) }

WhisperSegments ==
  [kind |-> "segments",
   segments |-> <<[text |-> "hi", start |-> 0, end |-> 2000],
                  [text |-> "there", start |-> 2000, end |-> 2000]>>]

RouteSttWorlds ==
  { \* Whisper gives segments; Gemini transcribes two chunks
    SttWorld(TRUE, WhisperSegments, " key ", TRUE, "ok",
             <<Chunk("one", FALSE, Some(600000)), Chunk("two", FALSE, NoneVal)>>,
             Chunk("all", FALSE, NoneVal)),
    \* Whisper gives blank flat text; Gemini has no key
    SttWorld(TRUE, [kind |-> "text", text |-> " "], "", TRUE, "fail", <<>>,
             Chunk("all", FALSE, NoneVal)) }

Request(lang, sttFallback, sttBackend, forceSTT) ==
  [videoId |-> "V1", lang |-> lang, disableTranslate |-> FALSE,
   sttFallback |-> sttFallback, sttBackend |-> sttBackend, forceSTT |-> forceSTT]

\* Captions only, the STT fallback on either backend, and forceSTT.
Requests ==
  { Request("en", FALSE, "", FALSE), Request("fr", FALSE, "", FALSE),
    Request("en", TRUE, "", FALSE), Request("en", TRUE, " Gemini ", FALSE),
    Request("en", FALSE, " Gemini ", TRUE) }

Init ==
  /\ InitStore
  /\ IdleRetry
  /\ IdleRoute
  /\ IdleSel /\ IdleNorm /\ IdleTmp /\ IdleThreads

RouteTick ==
  /\ nsteps + nreq < MaxRouteSteps
  /\ \E d \in RouteDeltas : now' = now + d
  /\ nsteps' = nsteps + 1
  /\ UNCHANGED <<storeVars, lastSet, lastFailSet, routeVars, outsideRoute>>

\* admin_env_set, by a caller holding the admin token: the variables the
\* route reads are set or, given an empty value, unset.
AdminValues == {<<"ENABLE_STT", "0">>, <<"ENABLE_STT", "">>,
                <<"GEMINI_SEGMENT_SEC", "abc">>, <<"GEMINI_SEGMENT_SEC", "">>}

AdminEnvSet ==
  /\ pc = "idle"
  /\ \E kv \in AdminValues :
       env' = IF StripStr(kv[2]) = "" THEN DictPop(env, kv[1])
              ELSE DictSet(env, kv[1], kv[2])
  /\ UNCHANGED <<clockVars, storeVars, lastSet, lastFailSet, pc, req, atStart, world,
                 sttWorld, pending, resp, calls, sttUse, nreq, outsideRoute>>

\* Lines 635-643: the request arrives and cache_get is tried.
RequestArrives ==
  /\ pc = "idle"
  /\ nsteps + nreq < MaxRouteSteps
  /\ nreq' = nreq + 1
  /\ \E r \in Requests :
       LET g == CacheGet(_CACHE, KeyOf(r), now) IN
       /\ req' = r
       /\ atStart' = [cache |-> _CACHE, fail |-> _FAIL_CACHE,
                      t |-> now, t1 |-> now, t2 |-> now]
       /\ _CACHE' = g.cache
       /\ IF Truthy(g.ret)
          THEN /\ resp' = Response(200, g.ret.val, 0, "cache")
               /\ pc' = "idle"
          ELSE /\ resp' = NoResp
               /\ pc' = "fail_cache_get"
  /\ world' = NoWorld
  /\ sttWorld' = NoWorld
  /\ pending' = NoResp
  /\ calls' = <<>>
  /\ sttUse' = "none"
  /\ UNCHANGED <<clockVars, _FAIL_CACHE, lastSet, lastFailSet, env, outsideRoute>>

\* Lines 645-650: fail_cache_get, whose two clock readings are gap ticks apart.
FailCacheCheck ==
  /\ pc = "fail_cache_get"
  /\ \E gap \in 0..MaxReadGap :
       LET g == FailCacheGet(_FAIL_CACHE, KeyOf(req), now, now + gap) IN
       /\ gap > 0 => nsteps + nreq < MaxRouteSteps
       /\ now' = now + gap
       /\ nsteps' = IF gap > 0 THEN nsteps + 1 ELSE nsteps
       /\ _FAIL_CACHE' = g.cache
       /\ atStart' = [atStart EXCEPT !.t1 = now, !.t2 = now + gap]
       /\ IF ~IsNone(g.ret) /\ g.ret.val # 0
          THEN /\ resp' = Response(429, <<>>, g.ret.val, "fail_cache")
               /\ pc' = "idle"
          ELSE /\ resp' = NoResp
               /\ pc' = "decide"
  /\ UNCHANGED <<_CACHE, lastSet, lastFailSet, env, req, world, sttWorld,
                 pending, calls, sttUse, nreq, outsideRoute>>

\* Lines 652-764 up to the store: forceSTT, or the upstream fetch and the
\* STT fallback, against what the caption source and the audio tools do.
Decided(out, w, sw) ==
  /\ world' = w
  /\ sttWorld' = IF out.stt = "ran" THEN sw ELSE NoWorld
  /\ calls' = out.log
  /\ sttUse' = out.stt
  /\ IF out.kind = "http_error"
     THEN /\ resp' = Response(out.status, <<>>, 0, out.via)
          /\ pending' = NoResp
          /\ pc' = "idle"
     ELSE /\ resp' = NoResp
          /\ pending' = out
          /\ pc' = "store"

DecideStep ==
  /\ pc = "decide"
  /\ \E w \in RouteWorlds, sw \in RouteSttWorlds : Decided(Decide(req, env, w, sw), w, sw)
  /\ UNCHANGED <<clockVars, storeVars, lastSet, lastFailSet, env, req, atStart, nreq,
                 outsideRoute>>

\* cache_set and return (lines 682-683, 719-720, 755-756, 766-767), or
\* fail_cache_set and the 429 (lines 722-724, 758-764).
StoreStep ==
  /\ pc = "store"
  /\ IF pending.kind = "cache_set"
     THEN /\ _CACHE' = CacheSet(_CACHE, KeyOf(req), pending.data, now)
          /\ lastSet' = DictSet(lastSet, KeyOf(req), [t |-> now, v |-> pending.data])
          /\ resp' = Response(200, pending.data, 0, pending.via)
          /\ UNCHANGED <<_FAIL_CACHE, lastFailSet>>
     ELSE /\ _FAIL_CACHE' = FailCacheSet(_FAIL_CACHE, KeyOf(req), Some(pending.retry), now)
          /\ lastFailSet' = DictSet(lastFailSet, KeyOf(req),
                                    [t |-> now, c |-> Some(pending.retry),
                                     world |-> world, stt |-> sttUse])
          /\ resp' = Response(429, <<>>, pending.retry, pending.via)
          /\ UNCHANGED <<_CACHE, lastSet>>
  /\ pc' = "idle"
  /\ pending' = NoResp
  /\ UNCHANGED <<clockVars, env, req, atStart, world, sttWorld, calls, sttUse, nreq,
                 outsideRoute>>

Next == RouteTick \/ AdminEnvSet \/ RequestArrives \/ FailCacheCheck \/ DecideStep \/ StoreStep

Spec == Init /\ [][Next]_vars

\* ------------------------------------------------------------------------
\* fetch_transcript_segments called directly
\* ------------------------------------------------------------------------
MaxTracks == 2

\* What a track's fetch() gives: the items carry the track's code and kind
\* as their text, and a key the service does not pass on.
RawOf(code, kind) ==
  <<[text |-> <<code, kind>>, start |-> 0, duration |-> 2000, lang |-> code]>>

\* fetch() scripts: data at once, data after one rate-limit error, a
\* rate-limit error for good.
FetchScript(code, kind, how) ==
  CASE how = "ok" -> <<OkOut(RawOf(code, kind))>>
    [] how = "retry" -> <<ErrOut(Msg429), OkOut(RawOf(code, kind))>>
    [] OTHER -> Forever429

\* A track by its code, its kind, how its fetch() behaves and how translating
\* it behaves: "no" (not translatable), "raises" (translate() raises), "fails"
\* (the translated fetch() always fails) or "ok".
TrackOf(code, generated, how, trans) ==
  Track(code, generated, trans # "no",
        FetchScript(code, IF generated THEN "generated" ELSE "manual", how),
        trans = "raises",
        IF trans = "ok" THEN <<OkOut(RawOf(code, "translated"))>>
        ELSE <<ErrOut(MsgUnavailable)>>)

SelTracks ==
  { TrackOf(c, FALSE, h, t) :
      c \in {"en", "de"}, h \in {"ok", "fail"}, t \in {"no", "raises", "fails", "ok"} }
  \cup { TrackOf("en", FALSE, "retry", "fails"), TrackOf("en-GB", FALSE, "ok", "no") }
  \cup { TrackOf(c, TRUE, h, "ok") : c \in {"en", "de"}, h \in {"ok", "fail"} }

\* A transcript list holds one track at most of each code and kind.
SelTrackLists ==
  { l \in UNION { [1..n -> SelTracks] : n \in 0..MaxTracks } :
      \A i, j \in 1..Len(l) :
        (l[i].code = l[j].code /\ l[i].generated = l[j].generated) => i = j }

RawDirect == <<[text |-> <<"direct">>, start |-> 0, duration |-> 2000]>>

SelDirects == { Forever429, <<OkOut(<<>>)>>, <<OkOut(RawDirect)>> }

SelWorlds ==
  { World(TRUE, "ok", tracks, direct) : tracks \in SelTrackLists, direct \in SelDirects }
  \cup { World(TRUE, lo, <<>>, direct) :
           lo \in {"no_transcript", "error"}, direct \in SelDirects }
  \cup { World(FALSE, "ok", <<>>, direct) :
           direct \in SelDirects \cup {<<ErrOut(Msg429), OkOut(RawDirect)>>,
                                        <<ErrOut(Msg429), ErrOut(MsgUnavailable),
                                          OkOut(RawDirect)>>} }

SelLangs == {"en", "fr", "de", "auto"}

InitSel ==
  /\ InitStore
  /\ IdleRetry
  /\ IdleRoute
  /\ IdleNorm /\ IdleTmp /\ IdleThreads
  /\ sOut = NotRun
  /\ \E w \in SelWorlds, lang \in SelLangs, disable_translate \in BOOLEAN :
       sIn = [w |-> w, lang |-> lang, disable_translate |-> disable_translate]

CallFetchTranscriptSegments ==
  /\ sOut = NotRun
  /\ sOut' = FetchTranscriptSegments(sIn.w, sIn.lang, sIn.disable_translate)
  /\ UNCHANGED <<sIn, outsideSel>>

NextSel == CallFetchTranscriptSegments

SpecSel == InitSel /\ [][NextSel]_vars

\* ------------------------------------------------------------------------
\* The failures the specification calls transient: a rate-limit error, or
\* empty data.
\* ------------------------------------------------------------------------
SpecTransient == {OkOut(<<>>), ErrOut(Msg429), ErrOut(MsgTooMany)}

\* ------------------------------------------------------------------------
\* C8: with attempts = n, an operation that fails transiently on its first
\* k < n invocations and then returns non-empty data makes fetch_with_retry
\* return exactly that data after exactly k+1 invocations.
\* ------------------------------------------------------------------------
C8_SuccessAfterTransient ==
  rOut # NotRun =>
    \A k \in 0..(rIn.attempts - 1) :
      (/\ \A j \in 1..k : rIn.script[j] \in SpecTransient
       /\ rIn.script[k + 1].ok
       /\ rIn.script[k + 1].data # <<>>) =>
        /\ ~rOut.raised
        /\ rOut.ret = Some(rIn.script[k + 1].data)
        /\ rOut.calls = k + 1

\* Four transient failures, of which one is empty data, then success on the
\* fifth invocation.
C8_Witness ==
  /\ rOut # NotRun
  /\ rIn.attempts = 5
  /\ \A j \in 1..4 : rIn.script[j] \in SpecTransient
  /\ rIn.script[2] = OkOut(<<>>)
  /\ rIn.script[5] = OkOut(SegsA)
  /\ rOut.calls = 5
  /\ rOut.ret = Some(SegsA)

\* ------------------------------------------------------------------------
\* C9: with attempts = n >= 1, an operation that always fails transiently is
\* invoked exactly n times, with a sleep after each invocation but the
\* last (n-1 sleeps), and the failure of the last invocation is raised.
\* ------------------------------------------------------------------------
C9_ExhaustsAttempts ==
  (/\ rOut # NotRun
   /\ rIn.attempts >= 1
   /\ \A j \in 1..rIn.attempts : rIn.script[j] \in SpecTransient) =>
    /\ rOut.calls = rIn.attempts
    /\ Len(rOut.sleeps) = rIn.attempts - 1
    /\ \A j \in 1..Len(rOut.sleeps) : rOut.sleeps[j].i = j - 1
    /\ rOut.raised
    /\ rOut.ret = NoneVal
    /\ rOut.err = IF rIn.script[rIn.attempts].ok THEN MsgEmptyData
                  ELSE rIn.script[rIn.attempts].msg

\* Five attempts, all failing transiently, the last one a rate limit.
C9_Witness ==
  /\ rOut # NotRun
  /\ rIn.attempts = 5
  /\ \A j \in 1..5 : rIn.script[j] \in SpecTransient
  /\ rIn.script[5] = ErrOut(MsgTooMany)
  /\ rOut.calls = 5
  /\ Len(rOut.sleeps) = 4
  /\ rOut.raised
  /\ rOut.err = MsgTooMany

\* ------------------------------------------------------------------------
\* C10 as stated: an invocation that raises an error which is neither a 429
\* / "too many requests" error nor the empty-data error of fetch_with_retry
\* itself is the last one: no sleep follows and the error is raised.
\* ------------------------------------------------------------------------
C10_AsStated ==
  rOut # NotRun =>
    \A j \in 1..rOut.calls :
      (~rIn.script[j].ok /\ rIn.script[j].msg \notin {Msg429, MsgTooMany}) =>
        /\ rOut.calls = j
        /\ Len(rOut.sleeps) = j - 1
        /\ rOut.raised
        /\ rOut.err = rIn.script[j].msg

\* The messages line 492-493 take for transient.
MatchesRetryPattern(m) ==
  \/ Contains(LowerMsg(m), <<"429">>)
  \/ Contains(LowerMsg(m), <<"too", "many", "requests">>)
  \/ Contains(LowerMsg(m), <<"no", "element", "found">>)
  \/ Contains(LowerMsg(m), <<"empty">>)

\* ------------------------------------------------------------------------
\* C10 amended: an invocation that raises an error whose lowered message
\* contains none of "429", "too many requests", "no element found" and
\* "empty" is the last one: no sleep follows and the error is raised.
\* ------------------------------------------------------------------------
C10_NonTransientPropagates ==
  rOut # NotRun =>
    \A j \in 1..rOut.calls :
      (~rIn.script[j].ok /\ ~MatchesRetryPattern(rIn.script[j].msg)) =>
        /\ rOut.calls = j
        /\ Len(rOut.sleeps) = j - 1
        /\ rOut.raised
        /\ rOut.err = rIn.script[j].msg

\* A non-transient error on the first of five attempts: one invocation, no
\* sleep, the error raised.
C10_Witness ==
  /\ rOut # NotRun
  /\ rIn.attempts = 5
  /\ rIn.script[1] = ErrOut(MsgUnavailable)
  /\ rOut.calls = 1
  /\ rOut.sleeps = <<>>
  /\ rOut.raised
  /\ rOut.err = MsgUnavailable

\* ------------------------------------------------------------------------
\* Requests that have been answered
\* ------------------------------------------------------------------------
Answered == pc = "idle" /\ resp # NoResp

\* The request went past cache_get and fail_cache_get.
PassedCaches == Answered /\ resp.via \notin {"cache", "fail_cache"}

\* A manual track in the requested language exists and its fetch, retried as
\* fetch_with_retry retries it, gives data.
ManualFetchable(w, lang) ==
  /\ w.listing
  /\ w.list_out = "ok"
  /\ FindTrack(w, FALSE, lang) # 0
  /\ ~FetchWithRetry(w.tracks[FindTrack(w, FALSE, lang)].fetch, 0, DEFAULT_ATTEMPTS).raised

\* The segments of that track, as the service returns segments: text, start
\* and duration of each item.
ManualSegments(w, lang) ==
  Project(FetchWithRetry(w.tracks[FindTrack(w, FALSE, lang)].fetch, 0,
                         DEFAULT_ATTEMPTS).ret.val)

BothCachesEmptyAtStart == atStart.cache = EmptyDict /\ atStart.fail = EmptyDict

\* What C3 promises of an answered request.
ManualTrackServed ==
  /\ resp.status = 200
  /\ resp.body = ManualSegments(world, req.lang)
  /\ DOMAIN _CACHE = {KeyOf(req)}
  /\ _CACHE[KeyOf(req)].data = ManualSegments(world, req.lang)
  /\ _FAIL_CACHE = EmptyDict

C4_CacheHitShortCircuits ==
  (Answered /\ KeyOf(req) \in DOMAIN atStart.cache
     /\ atStart.t - atStart.cache[KeyOf(req)].ts <= Secs(CACHE_TTL_SECONDS))
    => /\ resp.status = 200
       /\ resp.body = atStart.cache[KeyOf(req)].data
       /\ calls = <<>>
       /\ sttUse = "none"

\* A request that finds an entry exactly 1800 s old and is answered from it.
C4_Witness ==
  /\ Answered
  /\ KeyOf(req) \in DOMAIN atStart.cache
  /\ atStart.t - atStart.cache[KeyOf(req)].ts = Secs(CACHE_TTL_SECONDS)
  /\ resp.status = 200
  /\ resp.via = "cache"
  /\ resp.body = atStart.cache[KeyOf(req)].data
  /\ resp.body # <<>>
  /\ calls = <<>>

\* ------------------------------------------------------------------------
\* Failures and cooldowns
\* ------------------------------------------------------------------------
\* Every outcome of the script is a transient failure of fetch_with_retry.
AllTransient(script) == \A j \in 1..Len(script) : script[j] \in SpecTransient

\* Every tier of the selector fails, each fetch with transient failures only
\* and get_transcript with a rate-limit error.
AllTiersTransient(w) ==
  /\ w.listing
  /\ w.list_out = "ok"
  /\ Len(w.tracks) > 0
  /\ \A i \in 1..Len(w.tracks) :
       AllTransient(w.tracks[i].fetch) /\ AllTransient(w.tracks[i].trans_fetch)
  /\ \A j \in 1..Len(w.direct) :
       ~w.direct[j].ok /\ IsRateLimit(LowerMsg(w.direct[j].msg))

\* The request ended with 429 and the cooldown c, recorded under its key.
CooledDown(c) ==
  /\ resp.status = 429
  /\ resp.retry_after = c
  /\ KeyOf(req) \in DOMAIN _FAIL_CACHE
  /\ _FAIL_CACHE[KeyOf(req)].retry = c

\* First half of C5: every tier fails with transient errors and STT is
\* disabled (sttFallback false, or ENABLE_STT=0).
C5_First ==
  (PassedCaches /\ ~req.forceSTT /\ AllTiersTransient(world) /\ sttUse = "off")
    => CooledDown(300)

\* The request repeats one that failed as in C5_First: the cooldown it finds
\* under its key is the one that failure recorded, and it has not run out.
RepeatsTransientFailure ==
  /\ Answered
  /\ KeyOf(req) \in DOMAIN atStart.fail
  /\ KeyOf(req) \in DOMAIN lastFailSet
  /\ lastFailSet[KeyOf(req)].t = atStart.fail[KeyOf(req)].ts
  /\ AllTiersTransient(lastFailSet[KeyOf(req)].world)
  /\ lastFailSet[KeyOf(req)].stt = "off"
  /\ atStart.t1 - atStart.fail[KeyOf(req)].ts <= Secs(atStart.fail[KeyOf(req)].retry)

\* C5 as stated: the failure gives retry-after 300, and the identical request
\* repeated at once gives 429 with a retry-after strictly smaller than 300,
\* without a call to the caption source.  A repeat that reads the same clock
\* value as the one the cooldown was recorded at is told 300 and refutes it.
C5_AsStated ==
  /\ C5_First
  /\ RepeatsTransientFailure =>
       /\ resp.status = 429
       /\ resp.retry_after < 300
       /\ calls = <<>>

\* ------------------------------------------------------------------------
\* C5 amended: when every tier of the selector fails with transient errors
\* and STT is disabled, the request ends with 429 and retry-after 300, and the
\* 300 s cooldown is recorded; an identical request repeated before the
\* cooldown runs out ends with 429 and a retry-after between 1 and 300, which
\* is strictly smaller than 300 when the clock reading has advanced since the
\* cooldown was recorded and 300 when it has not, and makes no call to the
\* caption source and none to STT.
\* ------------------------------------------------------------------------
C5_CooldownShortCircuits ==
  /\ C5_First
  /\ RepeatsTransientFailure =>
       /\ resp.status = 429
       /\ resp.via = "fail_cache"
       /\ resp.retry_after >= 1
       /\ resp.retry_after <= 300
       /\ atStart.t2 > atStart.fail[KeyOf(req)].ts => resp.retry_after < 300
       /\ atStart.t2 = atStart.fail[KeyOf(req)].ts => resp.retry_after = 300
       /\ calls = <<>>
       /\ sttUse = "none"

\* The repeat, half a second after the failure: retry-after 299.
C5_Witness ==
  /\ RepeatsTransientFailure
  /\ lastFailSet[KeyOf(req)].c = Some(300)
  /\ atStart.t2 = atStart.fail[KeyOf(req)].ts + 1
  /\ resp.status = 429
  /\ resp.retry_after = 299
  /\ calls = <<>>

\* ------------------------------------------------------------------------
\* C6 as stated: a failed request whose failure stemmed from an exception
\* raised by the caption source reports retry-after 120 and records a 120 s
\* cooldown; one that simply found no data reports 300 and records 300 s.
\* fetch_transcript_segments catches every exception and returns None, so a
\* raising list_transcripts ends on the no-data path with 300.
\* ------------------------------------------------------------------------
C6_AsStated ==
  (PassedCaches /\ ~req.forceSTT /\ resp.status = 429) =>
    IF world.listing /\ world.list_out = "error" THEN CooledDown(120) ELSE CooledDown(300)

\* The request ended without segments.
NoSegments == PassedCaches /\ resp.status # 200

\* The cooldown recorded for the request's key answers a repeat at once.
ShortCircuitsRepeat ==
  /\ KeyOf(req) \in DOMAIN lastFailSet
  /\ _FAIL_CACHE[KeyOf(req)].ts = lastFailSet[KeyOf(req)].t
  /\ FailCacheGet(_FAIL_CACHE, KeyOf(req), lastFailSet[KeyOf(req)].t,
                  lastFailSet[KeyOf(req)].t).ret = Some(resp.retry_after)

SelRan == sOut # NotRun

\* list_transcripts is there and returns the track list.
Enumerated == SelRan /\ sIn.w.listing /\ sIn.w.list_out = "ok"

\* fetch() on the track, retried as fetch_with_retry retries it, gives data.
Fetchable(tr) == ~FetchWithRetry(tr.fetch, 0, DEFAULT_ATTEMPTS).raised

\* ... and the segments the service makes of that data.
SegmentsOf(tr) == Project(FetchWithRetry(tr.fetch, 0, DEFAULT_ATTEMPTS).ret.val)

EnglishCodes == {"en", "en-US", "en-GB"}

TranslationAlwaysFails(tr) ==
  tr.trans_raises \/ FetchWithRetry(tr.trans_fetch, 0, DEFAULT_ATTEMPTS).raised

C13_NoTranscriptsIsTerminal ==
  (SelRan /\ sIn.w.listing /\ sIn.w.list_out = "no_transcript")
    => /\ ~sOut.raised
       /\ sOut.ret = NoneVal
       /\ sOut.log = <<CallList>>

\* get_transcript would have given data, and is not asked.
C13_Witness ==
  /\ SelRan
  /\ sIn.w.listing
  /\ sIn.w.list_out = "no_transcript"
  /\ sIn.w.direct = <<OkOut(RawDirect)>>
  /\ sOut.ret = NoneVal
  /\ sOut.log = <<CallList>>

\* ------------------------------------------------------------------------
\* _normalize_durations on its own
\* ------------------------------------------------------------------------
MaxSegs == 3

\* Times are in half-milliseconds: 3 is 0.0015 s, a start round(..., 3) moves.
NormStarts == {0, 3, 8}
NormDurations == {0, 0 - 2, 5}

\* Segments as the STT backends and arbitrary callers hand them over: with or
\* without start and duration, some with a further key.
NormSegs ==
  {Seg("a", st, d) : st \in NormStarts, d \in NormDurations}
    \cup {[text |-> "a", start |-> st] : st \in NormStarts}
    \cup {[text |-> "a", duration |-> d] : d \in NormDurations}
    \cup {[text |-> "a"],
          [text |-> "b", start |-> 8, end |-> 11],
          [text |-> "b", start |-> 3, duration |-> 5, end |-> 8]}

NormLists == UNION {[1..n -> NormSegs] : n \in 0..MaxSegs}

InitNorm ==
  /\ InitStore
  /\ IdleRetry
  /\ IdleRoute
  /\ IdleSel /\ IdleTmp /\ IdleThreads
  /\ nOut = NotRun
  /\ nIn \in {NoneVal} \cup {Some(l) : l \in NormLists}

CallNormalizeDurations ==
  /\ nOut = NotRun
  /\ nOut' = [ret |-> NormalizeDurations(nIn)]
  /\ UNCHANGED <<nIn, outsideNorm>>

NextNorm == CallNormalizeDurations

SpecNorm == InitNorm /\ [][NextNorm]_vars

\* ------------------------------------------------------------------------
\* One STT attempt on its own
\* ------------------------------------------------------------------------
TmpWhispers ==
  {WhisperSegments, [kind |-> "text", text |-> " "], [kind |-> "none"]}

\* How the split ends and the parts it leaves.
TmpSplits ==
  { [ffmpeg |-> "missing", chunks |-> <<>>],
    [ffmpeg |-> "fail", chunks |-> <<>>],
    [ffmpeg |-> "noparts", chunks |-> <<>>],
    [ffmpeg |-> "ok", chunks |-> <<Chunk("one", FALSE, Some(600000)), Chunk("two", FALSE, NoneVal)>>],
    [ffmpeg |-> "ok", chunks |-> <<Chunk("one", TRUE, NoneVal)>>],
    [ffmpeg |-> "ok", chunks |-> <<Chunk("one", FALSE, Some(600000)), Chunk("two", FALSE, NoneVal),
                                   Chunk("three", FALSE, Some(200000))>>],
    [ffmpeg |-> "ok", chunks |-> <<Chunk(" ", FALSE, Some(600000)), Chunk("two", FALSE, Some(600000))>>],
    [ffmpeg |-> "ok", chunks |-> <<Chunk("one", TRUE, Some(600000)), Chunk("two", FALSE, Some(600000))>>] }

TmpSttWorlds ==
  { SttWorld(d, wh, k, g, sp.ffmpeg, sp.chunks, Chunk("all", FALSE, NoneVal)) :
      d \in BOOLEAN, wh \in TmpWhispers, k \in {" key ", ""}, g \in BOOLEAN,
      sp \in TmpSplits }

TmpEnvs == {EmptyDict, DictSet(EmptyDict, "GEMINI_SEGMENT_SEC", "abc")}

TmpBackends == {"gemini", "openai", "local"}

InitTmp ==
  /\ InitStore
  /\ IdleRetry
  /\ IdleRoute
  /\ IdleSel /\ IdleNorm /\ IdleThreads
  /\ tOut = NotRun
  /\ \E b \in TmpBackends, e \in TmpEnvs, s \in TmpSttWorlds :
       tIn = [backend |-> b, e |-> e, stt |-> s]

\* The if/elif on the backend of one request, with what it leaves on disk.
CallRunBackend ==
  /\ tOut = NotRun
  /\ tOut' = [result |-> RunBackend(tIn.backend, tIn.e, tIn.stt),
              held |-> TempDirsHeld(tIn.backend, tIn.e, tIn.stt),
              left |-> TempDirsLeft(tIn.backend, tIn.e, tIn.stt)]
  /\ UNCHANGED <<tIn, outsideTmp>>

NextTmp == CallRunBackend

SpecTmp == InitTmp /\ [][NextTmp]_vars

\* ------------------------------------------------------------------------
\* Concurrent requests on the transcript cache
\* ------------------------------------------------------------------------
\* The route is a plain def, which the server runs on worker threads; each
\* dictionary operation is one step, and nothing holds the steps of a
\* cache_get together.
MaxThreads == 2

\* cache_get and cache_set calls made in all.
MaxThreadOps == 3

ThreadKey == Key("V1", "en", FALSE)

\* A thread: where it is (at), the local entry of a cache_get, what its last
\* call returned, the entry its last pop removed and when, and its calls so far.
Thread(at, data, entry, ret, evicted, n) ==
  [at |-> at, data |-> data, entry |-> entry, ret |-> ret, evicted |-> evicted, n |-> n]

IdleThread == Thread("idle", <<>>, NoneVal, NoneVal, NoneVal, 0)

RECURSIVE ThreadOps(_, _)
ThreadOps(t, j) == IF j = 0 THEN 0 ELSE t[j].n + ThreadOps(t, j - 1)

InitThreads ==
  /\ InitStore
  /\ IdleRetry
  /\ IdleRoute
  /\ IdleSel /\ IdleNorm /\ IdleTmp
  /\ thr = [i \in 1..MaxThreads |-> IdleThread]

ThreadTick ==
  /\ TickBy(CacheDeltas)
  /\ UNCHANGED <<storeVars, thr, outsideThreads>>

\* A request enters cache_get (line 101).
ThreadCallGet(i) ==
  /\ thr[i].at = "idle"
  /\ ThreadOps(thr, MaxThreads) < MaxThreadOps
  /\ thr' = [thr EXCEPT ![i] = Thread("get", <<>>, NoneVal, NoneVal, NoneVal, @.n + 1)]
  /\ UNCHANGED <<clockVars, storeVars, outsideThreads>>

\* A request enters cache_set (line 149).
ThreadCallSet(i) ==
  /\ thr[i].at = "idle"
  /\ ThreadOps(thr, MaxThreads) < MaxThreadOps
  /\ \E v \in {SegsA, SegsB} :
       thr' = [thr EXCEPT ![i] = Thread("set", v, NoneVal, NoneVal, NoneVal, @.n + 1)]
  /\ UNCHANGED <<clockVars, storeVars, outsideThreads>>

\* entry = _CACHE.get(key); if not entry: return None (lines 103-105)
GetEntry(i) ==
  /\ thr[i].at = "get"
  /\ thr' = [thr EXCEPT ![i] =
               IF ThreadKey \in DOMAIN _CACHE
               THEN [@ EXCEPT !.at = "test", !.entry = Some(_CACHE[ThreadKey])]
               ELSE [@ EXCEPT !.at = "idle"]]
  /\ UNCHANGED <<clockVars, storeVars, outsideThreads>>

\* if (time.time() - ts) > CACHE_TTL_SECONDS (line 107); return data (line 110)
GetExpiry(i) ==
  /\ thr[i].at = "test"
  /\ thr' = [thr EXCEPT ![i] =
               IF (now - thr[i].entry.val.ts) > Secs(CACHE_TTL_SECONDS)
               THEN [@ EXCEPT !.at = "pop"]
               ELSE [@ EXCEPT !.at = "idle", !.ret = Some(thr[i].entry.val.data)]]
  /\ UNCHANGED <<clockVars, storeVars, outsideThreads>>

\* _CACHE.pop(key, None); return None (lines 108-109)
GetPop(i) ==
  /\ thr[i].at = "pop"
  /\ _CACHE' = DictPop(_CACHE, ThreadKey)
  /\ thr' = [thr EXCEPT ![i] =
               [@ EXCEPT !.at = "idle",
                         !.evicted = IF ThreadKey \in DOMAIN _CACHE
                                     THEN Some([ts |-> _CACHE[ThreadKey].ts, at |-> now])
                                     ELSE NoneVal]]
  /\ UNCHANGED <<clockVars, _FAIL_CACHE, outsideThreads>>

\* _CACHE[key] = (time.time(), data) (line 151)
SetStore(i) ==
  /\ thr[i].at = "set"
  /\ _CACHE' = CacheSet(_CACHE, ThreadKey, thr[i].data, now)
  /\ thr' = [thr EXCEPT ![i] = [@ EXCEPT !.at = "idle"]]
  /\ UNCHANGED <<clockVars, _FAIL_CACHE, outsideThreads>>

NextThreads ==
  \/ ThreadTick
  \/ \E i \in 1..MaxThreads : ThreadCallGet(i)
  \/ \E i \in 1..MaxThreads : ThreadCallSet(i)
  \/ \E i \in 1..MaxThreads : GetEntry(i)
  \/ \E i \in 1..MaxThreads : GetExpiry(i)
  \/ \E i \in 1..MaxThreads : GetPop(i)
  \/ \E i \in 1..MaxThreads : SetStore(i)

SpecThreads == InitThreads /\ [][NextThreads]_vars

\* ------------------------------------------------------------------------
\* The choice of the STT backend, request after request
\* ------------------------------------------------------------------------
MaxBackendCalls == 2

outsideBackend ==
  <<clockVars, storeVars, histVars, retryVars, pc, atStart, world, sttWorld, pending,
    resp, calls, sttUse, selVars, normVars, thr>>

\* Values an admin gives STT_BACKEND; the empty one unsets it.
BackendEnvValues == {"Gemini", "Local", "whisperx", ""}

\* Requests that reach the backend selection, with and without an override.
BackendRequests ==
  {Request("en", TRUE, b, FALSE) : b \in {"", " Gemini ", "local", "openai"}}

InitBackend ==
  /\ InitStore
  /\ IdleRetry
  /\ IdleRoute
  /\ IdleSel /\ IdleNorm /\ IdleTmp /\ IdleThreads

\* admin_env_set on STT_BACKEND (lines 82-99).
BackendEnvSet ==
  /\ \E v \in BackendEnvValues :
       env' = IF StripStr(v) = "" THEN DictPop(env, "STT_BACKEND")
              ELSE DictSet(env, "STT_BACKEND", v)
  /\ UNCHANGED <<req, nreq, tIn, tOut, outsideBackend>>

\* A request reaches the backend selection and the if/elif on the backend
\* (lines 727-753); tIn keeps what the request before it did.
BackendCall ==
  /\ nreq < MaxBackendCalls
  /\ nreq' = nreq + 1
  /\ \E r \in BackendRequests, s \in RouteSttWorlds :
       /\ req' = r
       /\ tOut' = [sttBackend |-> r.sttBackend, e |-> env, backend |-> BackendOf(r, env),
                   result |-> RunBackend(BackendOf(r, env), env, s)]
  /\ tIn' = tOut
  /\ UNCHANGED <<env, outsideBackend>>

NextBackend == BackendEnvSet \/ BackendCall

SpecBackend == InitBackend /\ [][NextBackend]_vars

\* ------------------------------------------------------------------------
\* Both caches under direct calls, a bounded number of them
\* ------------------------------------------------------------------------
MaxLazyOps == 3

outsideLazy ==
  <<lastSet, lastFailSet, retryVars, env, pc, req, atStart, world, sttWorld, pending,
    resp, calls, sttUse, unitVars, thr>>

LazyDeltas == {1, Secs(120), Secs(CACHE_TTL_SECONDS)}

LazyTick ==
  /\ TickBy(LazyDeltas)
  /\ UNCHANGED <<storeVars, op, nreq, outsideLazy>>

LazyCacheSet ==
  /\ nreq < MaxLazyOps
  /\ nreq' = nreq + 1
  /\ \E k \in CacheKeys :
       /\ _CACHE' = CacheSet(_CACHE, k, SegsB, now)
       /\ op' = [name |-> "cache_set", key |-> k]
  /\ UNCHANGED <<clockVars, _FAIL_CACHE, outsideLazy>>

LazyCacheGet ==
  /\ nreq < MaxLazyOps
  /\ nreq' = nreq + 1
  /\ \E k \in CacheKeys :
       /\ _CACHE' = CacheGet(_CACHE, k, now).cache
       /\ op' = [name |-> "cache_get", key |-> k, had |-> k \in DOMAIN _CACHE,
                 ret |-> CacheGet(_CACHE, k, now).ret]
  /\ UNCHANGED <<clockVars, _FAIL_CACHE, outsideLazy>>

LazyFailCacheSet ==
  /\ nreq < MaxLazyOps
  /\ nreq' = nreq + 1
  /\ \E k \in CacheKeys :
       /\ _FAIL_CACHE' = FailCacheSet(_FAIL_CACHE, k, Some(120), now)
       /\ op' = [name |-> "fail_cache_set", key |-> k]
  /\ UNCHANGED <<clockVars, _CACHE, outsideLazy>>

\* fail_cache_get reads the clock twice; gap ticks pass between the readings.
LazyFailCacheGet ==
  /\ nreq < MaxLazyOps
  /\ nreq' = nreq + 1
  /\ \E k \in CacheKeys, gap \in 0..MaxReadGap :
       /\ gap > 0 => nsteps < MaxClockSteps
       /\ _FAIL_CACHE' = FailCacheGet(_FAIL_CACHE, k, now, now + gap).cache
       /\ now' = now + gap
       /\ nsteps' = IF gap > 0 THEN nsteps + 1 ELSE nsteps
       /\ op' = [name |-> "fail_cache_get", key |-> k, had |-> k \in DOMAIN _FAIL_CACHE,
                 ret |-> FailCacheGet(_FAIL_CACHE, k, now, now + gap).ret]
  /\ UNCHANGED <<_CACHE, outsideLazy>>

NextLazy ==
  LazyTick \/ LazyCacheSet \/ LazyCacheGet \/ LazyFailCacheSet \/ LazyFailCacheGet

SpecLazy == InitCache /\ [][NextLazy]_vars

\* ------------------------------------------------------------------------
\* The calls of one fetch_transcript_segments run, read back from its log
\* ------------------------------------------------------------------------
\* How many of the first k calls equal c.
CountUpTo(log, k, c) == Cardinality({j \in 1..k : log[j] = c})

\* What the k-th call gave: the caption source's outcome for a fetch, a
\* translated fetch or a get_transcript, counted per track as invocations.
OutcomeOfCall(w, log, k) ==
  LET c == log[k] IN
  CASE c.call = "fetch" -> OutcomeAt(w.tracks[c.track].fetch, CountUpTo(log, k, c))
    [] c.call = "fetch_translated" ->
         OutcomeAt(w.tracks[c.track].trans_fetch, CountUpTo(log, k, c))
    [] c.call = "get_transcript" ->
         OutcomeAt(w.direct, Cardinality({j \in 1..k : log[j].call = "get_transcript"}))
    [] OTHER -> ErrOut(<<>>)

\* The k-th call is the success of a candidate: a fetch that gave data, or a
\* get_transcript that returned.
CandidateSucceeded(w, log, k) ==
  /\ log[k].call \in {"fetch", "fetch_translated", "get_transcript"}
  /\ OutcomeOfCall(w, log, k).ok
  /\ log[k].call # "get_transcript" => OutcomeOfCall(w, log, k).data # <<>>

\* The tier a call shows to be running; 0 for calls every tier makes.
TierMark(c) ==
  CASE c.call = "find_manually_created_transcript" -> 1
    [] c.call = "translate" -> 2
    [] c.call = "fetch_translated" -> 2
    [] c.call = "find_generated_transcript" -> 3
    [] c.call = "get_transcript" -> 6
    [] OTHER -> 0

\* Tier 2 tries track i.
TranslateCandidate(w, lang, disable_translate, i) ==
  /\ ~disable_translate
  /\ w.tracks[i].translatable
  /\ LowerCode(w.tracks[i].code) # LowerCode(OrEn(lang))

\* The marks never go down, and a tier's mark appears only after the earlier
\* tiers have tried all their candidates.
TiersInOrder(w, lang, disable_translate, log) ==
  /\ \A a, b \in 1..Len(log) :
       (a < b /\ TierMark(log[a]) # 0 /\ TierMark(log[b]) # 0)
         => TierMark(log[a]) <= TierMark(log[b])
  /\ (\E k \in 1..Len(log) : TierMark(log[k]) >= 2) =>
       \A l \in {lang, "en", "en-US", "en-GB"} :
         \E k \in 1..Len(log) : log[k] = CallFind("find_manually_created_transcript", l)
  /\ (\E k \in 1..Len(log) : TierMark(log[k]) >= 3) =>
       \A i \in 1..Len(w.tracks) :
         TranslateCandidate(w, lang, disable_translate, i) =>
           \E k \in 1..Len(log) : log[k] = CallTranslate(i, OrEn(lang))
  /\ (\E k \in 1..Len(log) : TierMark(log[k]) = 6) =>
       /\ \A l \in {lang, "en", "en-US", "en-GB"} :
            \E k \in 1..Len(log) : log[k] = CallFind("find_generated_transcript", l)
       /\ \A i \in 1..Len(w.tracks) : \E k \in 1..Len(log) : log[k] = CallFetch(i)

\* No candidate succeeded before the last call, and the last call is the
\* success whose data is returned: nothing is called after it.
FirstSuccessWins(w, log, ret) ==
  /\ \A k \in 1..(Len(log) - 1) : ~CandidateSucceeded(w, log, k)
  /\ IF IsNone(ret)
     THEN ~CandidateSucceeded(w, log, Len(log))
     ELSE /\ CandidateSucceeded(w, log, Len(log))
          /\ ret = Some(Project(OutcomeOfCall(w, log, Len(log)).data))

\* No fetch of the track ever gives data, and no translation of it does.
NeverFetchable(tr) ==
  /\ \A j \in 1..Len(tr.fetch) : ~tr.fetch[j].ok \/ tr.fetch[j].data = <<>>
  /\ tr.translatable =>
       \/ tr.trans_raises
       \/ \A j \in 1..Len(tr.trans_fetch) :
            ~tr.trans_fetch[j].ok \/ tr.trans_fetch[j].data = <<>>

\* ------------------------------------------------------------------------
\* C19: with list_transcripts succeeding, the failure of a candidate never
\* keeps later candidates or tiers from being tried: when every candidate of
\* tiers 1-5 fails, every track has been fetched, get_transcript is called
\* exactly once, as the last call, and fetch_transcript_segments returns
\* what it gives, or no result, without raising, when it fails too.
\* ------------------------------------------------------------------------
C19_FailuresSwallowed ==
  (Enumerated /\ \A i \in 1..Len(sIn.w.tracks) : NeverFetchable(sIn.w.tracks[i]))
    => /\ ~sOut.raised
       /\ Cardinality({k \in 1..Len(sOut.log) : sOut.log[k].call = "get_transcript"}) = 1
       /\ sOut.log[Len(sOut.log)] = CallDirect(PreferredLangs(sIn.lang))
       /\ TiersInOrder(sIn.w, sIn.lang, sIn.disable_translate, sOut.log)
       /\ ~sIn.w.direct[1].ok => sOut.ret = NoneVal
       /\ sIn.w.direct[1].ok => sOut.ret = Some(Project(sIn.w.direct[1].data))

\* Two tracks whose fetches and translations all fail, and a failing
\* get_transcript: every tier has run and nothing is returned.
C19_Witness ==
  /\ Enumerated
  /\ sIn.lang = "fr"
  /\ ~sIn.disable_translate
  /\ sIn.w.tracks = <<TrackOf("en", FALSE, "fail", "raises"), TrackOf("de", FALSE, "fail", "fails")>>
  /\ sIn.w.direct = Forever429
  /\ sOut.ret = NoneVal
  /\ ~sOut.raised
  /\ \E k \in 1..Len(sOut.log) : sOut.log[k] = CallTranslate(1, "fr")
  /\ \E k \in 1..Len(sOut.log) : sOut.log[k] = CallFetchTranslated(2)
  /\ sOut.log[Len(sOut.log)] = CallDirect(PreferredLangs("fr"))

StartsBackend == pc = "decide" /\ pc' # "decide" /\ sttUse' = "ran"

\* What the selector gives the deciding request in the world it meets.
SelectorGaveNothing ==
  \/ FetchTranscriptSegments(world', req.lang, req.disableTranslate).raised
  \/ ~Truthy(FetchTranscriptSegments(world', req.lang, req.disableTranslate).ret)

\* C14 as stated: a backend is started only if sttFallback is true, ENABLE_STT
\* is not "0", and the selector gave no result or raised or forceSTT is set.
\* A request with forceSTT=true and sttFallback=false starts one.
C14_AsStated ==
  [][StartsBackend =>
       /\ req.sttFallback
       /\ EnableEnv(env)
       /\ req.forceSTT \/ SelectorGaveNothing]_vars

\* ------------------------------------------------------------------------
\* C14 amended: an STT backend is started during a /transcript request only
\* if ENABLE_STT is not "0" and either the caller set forceSTT (whatever
\* sttFallback is), or sttFallback is true and the selector produced no
\* result or raised.
\* ------------------------------------------------------------------------
C14_SttOnlyWhenAllowed ==
  [][StartsBackend =>
       /\ EnableEnv(env)
       /\ \/ req.forceSTT
          \/ req.sttFallback /\ SelectorGaveNothing]_vars

\* A request that asked for the fallback, was not forced, found no captions
\* and started a backend.
C14_Witness ==
  /\ sttUse = "ran"
  /\ ~req.forceSTT
  /\ req.sttFallback
  /\ calls # <<>>
  /\ ~Truthy(FetchTranscriptSegments(world, req.lang, req.disableTranslate).ret)

\* ------------------------------------------------------------------------
\* Claims about _normalize_durations
\* ------------------------------------------------------------------------
NormRan == nOut # NotRun /\ ~IsNone(nIn)

\* The segment's duration is missing or <= 0.
NeedsFill(seg) == "duration" \notin DOMAIN seg \/ seg.duration <= 0

\* start[i]; a missing start counts as 0, and a neighbour's missing start as
\* the start of the segment being filled.
OwnStart(l, i) == IF "start" \in DOMAIN l[i] THEN l[i].start ELSE 0

NeighbourStart(l, j, i) == IF "start" \in DOMAIN l[j] THEN l[j].start ELSE OwnStart(l, i)

\* The difference of starts the fill is made from.
Gap(l, i) ==
  IF i < Len(l) THEN NeighbourStart(l, i + 1, i) - OwnStart(l, i)
  ELSE IF Len(l) >= 2 THEN OwnStart(l, i) - NeighbourStart(l, i - 1, i)
  ELSE 0

\* C15 as stated: a filled duration is max(0, difference of the starts).  The
\* code rounds the difference to milliseconds first, so a difference of
\* 0.0015 s is filled as 0.002 s.
C15_AsStated ==
  NormRan =>
    \A i \in 1..Len(nIn.val) :
      /\ NeedsFill(nIn.val[i]) => nOut.ret.val[i].duration = Max(0, Gap(nIn.val, i))
      /\ nOut.ret.val[i].duration >= 0

\* ------------------------------------------------------------------------
\* C15 amended: _normalize_durations fills every segment whose duration is
\* missing or <= 0 with max(0, round(d, 3)), where d is start[i+1] - start[i]
\* for a non-last segment, start[last] - start[last-1] for the last segment
\* when a prior one exists, and 0 for a sole segment.  Every output segment
\* has duration >= 0.
\* ------------------------------------------------------------------------
C15_FilledDurations ==
  NormRan =>
    \A i \in 1..Len(nIn.val) :
      /\ NeedsFill(nIn.val[i])
           => nOut.ret.val[i].duration = Max(0, RoundMs(Gap(nIn.val, i)))
      /\ nOut.ret.val[i].duration >= 0

\* Three segments without usable durations whose starts go up and then down:
\* the first is filled from the next start, the second clamped to 0, the last
\* filled from the previous start.
C15_Witness ==
  /\ nOut # NotRun
  /\ nIn = Some(<<Seg("a", 0, 0), Seg("a", 8, 0 - 2), [text |-> "a", start |-> 3]>>)
  /\ nOut.ret.val[1].duration = 8
  /\ nOut.ret.val[2].duration = 0
  /\ nOut.ret.val[3].duration = 0

\* ------------------------------------------------------------------------
\* C16: _normalize_durations never reorders or drops segments: the output is
\* as long as the input, output segment i has the text and the start of input
\* segment i, a positive input duration is kept exactly, and an empty input
\* gives an empty output.
\* ------------------------------------------------------------------------
C16_OrderAndPositivesKept ==
  nOut # NotRun =>
    IF IsNone(nIn) \/ nIn.val = <<>> THEN nOut.ret = nIn
    ELSE /\ ~IsNone(nOut.ret)
         /\ Len(nOut.ret.val) = Len(nIn.val)
         /\ \A i \in 1..Len(nIn.val) :
              /\ nOut.ret.val[i].text = nIn.val[i].text
              /\ "start" \in DOMAIN nIn.val[i] => nOut.ret.val[i].start = nIn.val[i].start
              /\ ~NeedsFill(nIn.val[i]) => nOut.ret.val[i].duration = nIn.val[i].duration

\* Distinct segments out of start order, one with a positive duration between
\* two that are filled.
C16_Witness ==
  /\ nOut # NotRun
  /\ nIn = Some(<<[text |-> "b", start |-> 8, end |-> 11],
                  [text |-> "b", start |-> 3, duration |-> 5, end |-> 8],
                  Seg("a", 0, 0)>>)
  /\ nOut.ret.val[2] = [text |-> "b", start |-> 3, duration |-> 5, end |-> 8]
  /\ nOut.ret.val[1].start = 8
  /\ nOut.ret.val[3].text = "a"

\* ------------------------------------------------------------------------
\* Claims about temporary directories
\* ------------------------------------------------------------------------
\* C17 as stated: when an STT attempt (openai or gemini) has ended, with
\* segments, without, or with an exception, no temporary directory made for
\* it is left.  A split in which ffmpeg ends well but writes no part leaves
\* its yt_stt_seg_ directory behind.
C17_AsStated == tOut # NotRun => tOut.left = {}

\* ------------------------------------------------------------------------
\* Claims about concurrent cache accesses
\* ------------------------------------------------------------------------
\* C18 as stated: under every interleaving of cache_get and cache_set on one
\* key, a cache_get removes only an entry that is expired when it removes it;
\* an entry a concurrent cache_set has just written is never evicted.  The
\* read, the expiry test and the pop of cache_get are separate steps: a
\* cache_set between the test and the pop has its fresh entry removed.
C18_AsStated ==
  \A i \in 1..MaxThreads :
    ~IsNone(thr[i].evicted)
      => (thr[i].evicted.val.at - thr[i].evicted.val.ts) > Secs(CACHE_TTL_SECONDS)

\* ------------------------------------------------------------------------
\* C21: with disableTranslate true, fetch_transcript_segments never calls
\* translate on a track nor fetches a translated handle, its result is never
\* the segments of a translated track, and the call that follows the calls
\* of tier 1 is the first find_generated_transcript of tier 3.
\* ------------------------------------------------------------------------
\* The next call after k that shows a tier, 0 when there is none.
NextMark(log, k) ==
  LET later == {m \in (k + 1)..Len(log) : TierMark(log[m]) # 0}
  IN IF later = {} THEN 0
     ELSE TierMark(log[CHOOSE m \in later : \A x \in later : m <= x])

IsTranslatedData(ret) ==
  ~IsNone(ret) /\ \E j \in 1..Len(ret.val) : ret.val[j].text[Len(ret.val[j].text)] = "translated"

C21_DisableTranslateSkipsTier2 ==
  (Enumerated /\ sIn.disable_translate) =>
    /\ \A k \in 1..Len(sOut.log) : sOut.log[k].call \notin {"translate", "fetch_translated"}
    /\ ~IsTranslatedData(sOut.ret)
    /\ \A k \in 1..Len(sOut.log) :
         TierMark(sOut.log[k]) = 1 => NextMark(sOut.log, k) \in {0, 1, 3}
    /\ (\E k \in 1..Len(sOut.log) : TierMark(sOut.log[k]) > 1) =>
         \E k \in 1..Len(sOut.log) :
           /\ sOut.log[k] = CallFind("find_manually_created_transcript", "en-GB")
           /\ NextMark(sOut.log, k) = 3

\* A translatable manual German track whose translation would work, asked
\* for in French with translation disabled: tier 1 finds nothing and tier 3
\* serves the generated English track.
C21_Witness ==
  /\ Enumerated
  /\ sIn.disable_translate
  /\ sIn.lang = "fr"
  /\ sIn.w.tracks = <<TrackOf("de", FALSE, "ok", "ok"), TrackOf("en", TRUE, "ok", "ok")>>
  /\ sOut.ret = Some(Project(RawOf("en", "generated")))

\* ------------------------------------------------------------------------
\* C22: when the caption source cannot enumerate tracks,
\* fetch_transcript_segments makes direct fetches only, with the language
\* lists [lang, "en", "en-US", "en-GB"], ["en"], ["en-US"], ["en-GB"] in that
\* order; it returns what the first get_transcript that succeeds gives and
\* calls nothing after it, and returns no result when all four fail.
\* ------------------------------------------------------------------------
DirectOrder(lang) == <<<<lang, "en", "en-US", "en-GB">>, <<"en">>, <<"en-US">>, <<"en-GB">>>>

C22_NoListingDirectFetches ==
  (SelRan /\ ~sIn.w.listing) =>
    /\ ~sOut.raised
    /\ Len(sOut.log) \in 1..4
    /\ \A k \in 1..Len(sOut.log) : sOut.log[k] = CallDirect(DirectOrder(sIn.lang)[k])
    /\ \A k \in 1..(Len(sOut.log) - 1) : ~OutcomeAt(sIn.w.direct, k).ok
    /\ IF OutcomeAt(sIn.w.direct, Len(sOut.log)).ok
       THEN sOut.ret = Some(Project(OutcomeAt(sIn.w.direct, Len(sOut.log)).data))
       ELSE Len(sOut.log) = 4 /\ sOut.ret = NoneVal

\* The first two direct fetches fail and the third, for ["en-US"], gives data.
C22_Witness ==
  /\ SelRan
  /\ ~sIn.w.listing
  /\ sIn.lang = "fr"
  /\ sOut.log = <<CallDirect(<<"fr", "en", "en-US", "en-GB">>), CallDirect(<<"en">>),
                  CallDirect(<<"en-US">>)>>
  /\ sOut.ret = Some(Project(RawDirect))

\* ------------------------------------------------------------------------
\* Claims about the Gemini timestamps
\* ------------------------------------------------------------------------
\* The attempt went through _gemini_transcribe_files and yielded segments.
GeminiTranscribed ==
  /\ tOut # NotRun
  /\ tIn.backend = "gemini"
  /\ ~tOut.result.raised
  /\ ~IsNone(tOut.result.segs)

\* The chunks that get a segment: transcribed without error, text not blank.
EmittedChunks(parts) == {j \in 1..Len(parts) : ~parts[j].fails /\ StripStr(parts[j].text) # ""}

\* The sum of the durations of the chunks before chunk j; a chunk whose
\* duration cannot be probed counts 0.
RECURSIVE DurationBefore(_, _)
DurationBefore(parts, j) ==
  IF j <= 1 THEN 0
  ELSE DurationBefore(parts, j - 1)
         + (IF IsNone(parts[j - 1].dur) THEN 0 ELSE parts[j - 1].dur.val)

\* The chunk the k-th segment was emitted for.
ChunkOfSegment(parts, k) ==
  CHOOSE j \in EmittedChunks(parts) :
    Cardinality({x \in EmittedChunks(parts) : x <= j}) = k

\* C23 as stated: the segment emitted for chunk i starts at the sum of the
\* durations of all chunks before chunk i, the offset advancing by each
\* chunk's real duration.  A chunk that is skipped (blank text, or a failed
\* upload or generation) is never probed and does not advance the offset, so
\* the segments after it start too early.
C23_AsStated ==
  GeminiTranscribed =>
    /\ Len(tOut.result.segs.val) = Cardinality(EmittedChunks(SplitAudioFfmpeg(tIn.stt)))
    /\ \A k \in 1..Len(tOut.result.segs.val) :
         tOut.result.segs.val[k].start =
           DurationBefore(SplitAudioFfmpeg(tIn.stt),
                          ChunkOfSegment(SplitAudioFfmpeg(tIn.stt), k))

\* ------------------------------------------------------------------------
\* Claims about fail_cache_set
\* ------------------------------------------------------------------------
\* The last operation was a fail_cache_set.
FailSetDone == op.name = "fail_cache_set"

\* The entry of the key just set carries the time of the set.
StoredAtReset ==
  /\ op.key \in DOMAIN _FAIL_CACHE
  /\ _FAIL_CACHE[op.key].ts = lastFailSet[op.key].t

\* C25 as stated: fail_cache_set(k, c) records exactly c for every integer c
\* and 300 only when no cooldown is given; the set overwrites.  A cooldown of
\* 0 is falsy and is recorded as 300.
C25_AsStated ==
  FailSetDone =>
    /\ StoredAtReset
    /\ _FAIL_CACHE[op.key].retry =
         IF IsNone(lastFailSet[op.key].c) THEN FAIL_TTL_SECONDS_DEFAULT
         ELSE lastFailSet[op.key].c.val

\* ------------------------------------------------------------------------
\* C25 amended: fail_cache_set(k, c) records exactly the cooldown c for
\* every integer c other than 0, and records the default 300 s when the
\* caller gives no cooldown or gives 0; a set overwrites any existing entry
\* for k unconditionally, storedAt being reset to the time of the set.
\* ------------------------------------------------------------------------
C25_CooldownPerCallSite ==
  FailSetDone =>
    /\ StoredAtReset
    /\ _FAIL_CACHE[op.key].retry =
         IF IsNone(lastFailSet[op.key].c) \/ lastFailSet[op.key].c.val = 0
         THEN FAIL_TTL_SECONDS_DEFAULT
         ELSE lastFailSet[op.key].c.val

\* A set with cooldown 120 over an entry that was there, made after time
\* had passed.
C25_Witness ==
  /\ FailSetDone
  /\ op.had
  /\ lastFailSet[op.key].c = Some(120)
  /\ lastFailSet[op.key].t > 0
  /\ _FAIL_CACHE[op.key] = [ts |-> lastFailSet[op.key].t, retry |-> 120]

\* ------------------------------------------------------------------------
\* C24: the STT backend of a request is the request's sttBackend when one is
\* given, otherwise STT_BACKEND of the runtime configuration, otherwise
\* openai (trimmed and lower-cased); it is resolved from the configuration
\* as it is when the request is served, so a change between two requests
\* shows in the second; the local backend never yields a result.
\* ------------------------------------------------------------------------
Normalised(x) == LowerStr(StripStr(x))

ExpectedBackend(override, e) ==
  IF override # "" THEN Normalised(override)
  ELSE IF "STT_BACKEND" \in DOMAIN e THEN Normalised(e["STT_BACKEND"])
  ELSE "openai"

C24_BackendResolution ==
  [][tOut' # tOut =>
       /\ tOut'.backend = ExpectedBackend(tOut'.sttBackend, env)
       /\ tOut'.backend = "local" =>
            (IsNone(tOut'.result.segs) /\ ~tOut'.result.raised /\ ~tOut'.result.ran)]_vars

\* Two requests without an override, STT_BACKEND set to Gemini between them:
\* the first used openai and the second uses gemini.
C24_Witness ==
  /\ tIn # NotRun
  /\ tIn.sttBackend = "" /\ tOut.sttBackend = ""
  /\ tIn.backend = "openai" /\ ~IsNone(tIn.result.segs)
  /\ tOut.backend = "gemini" /\ tOut.result.ran
  /\ tOut.e # tIn.e

\* ------------------------------------------------------------------------
\* C26: lazy expiry only.  An entry leaves _CACHE or _FAIL_CACHE only in a
\* get on its own key that finds it expired, which returns absent; a get
\* that finds a valid entry leaves both caches as they are, storedAt too;
\* a get or set on key k changes the entry of no other key, and a call on
\* one cache leaves the other cache alone.
\* ------------------------------------------------------------------------
EntryIn(c, k) == IF k \in DOMAIN c THEN Some(c[k]) ELSE NoneVal

C26_LazyExpiryOnly ==
  [][/\ \A k \in (DOMAIN _CACHE) \ (DOMAIN _CACHE') :
          /\ op'.name = "cache_get" /\ op'.key = k /\ IsNone(op'.ret)
          /\ (now - _CACHE[k].ts) > Secs(CACHE_TTL_SECONDS)
     /\ \A k \in (DOMAIN _FAIL_CACHE) \ (DOMAIN _FAIL_CACHE') :
          /\ op'.name = "fail_cache_get" /\ op'.key = k /\ IsNone(op'.ret)
          /\ (now - _FAIL_CACHE[k].ts) > Secs(_FAIL_CACHE[k].retry)
     /\ (op'.name \in {"cache_get", "fail_cache_get"} /\ ~IsNone(op'.ret))
          => (_CACHE' = _CACHE /\ _FAIL_CACHE' = _FAIL_CACHE)
     /\ op'.name \in {"cache_get", "cache_set"} => _FAIL_CACHE' = _FAIL_CACHE
     /\ op'.name \in {"fail_cache_get", "fail_cache_set"} => _CACHE' = _CACHE
     /\ op' # NoOp =>
          \A k \in CacheKeys \ {op'.key} :
            /\ EntryIn(_CACHE', k) = EntryIn(_CACHE, k)
            /\ EntryIn(_FAIL_CACHE', k) = EntryIn(_FAIL_CACHE, k)]_vars

\* A cache_get has just evicted the expired entry of its key while the other
\* key's entry, of the same age, is still there.
C26_Witness ==
  /\ op.name = "cache_get"
  /\ op.had
  /\ IsNone(op.ret)
  /\ op.key \notin DOMAIN _CACHE
  /\ \E k \in CacheKeys \ {op.key} :
       k \in DOMAIN _CACHE /\ (now - _CACHE[k].ts) > Secs(CACHE_TTL_SECONDS)

\* ------------------------------------------------------------------------
\* C27: with requests served one after another, no key has an unexpired
\* _CACHE entry and an unexpired _FAIL_CACHE entry at the same time, and
\* every entry of _CACHE holds a non-empty segment sequence.
\* ------------------------------------------------------------------------
ValidSuccess(k) ==
  k \in DOMAIN _CACHE /\ (now - _CACHE[k].ts) <= Secs(CACHE_TTL_SECONDS)

ValidFailure(k) ==
  k \in DOMAIN _FAIL_CACHE /\ (now - _FAIL_CACHE[k].ts) <= Secs(_FAIL_CACHE[k].retry)

C27_CachesExclusive ==
  /\ \A k \in (DOMAIN _CACHE) \cup (DOMAIN _FAIL_CACHE) : ~(ValidSuccess(k) /\ ValidFailure(k))
  /\ \A k \in DOMAIN _CACHE : _CACHE[k].data # <<>>

\* A key whose request was cooled down and, the cooldown over, is served
\* with data: the cooldown entry is gone when the data is stored.
C27_Witness ==
  /\ Answered
  /\ resp.status = 200
  /\ resp.via # "cache"
  /\ KeyOf(req) \in DOMAIN lastFailSet
  /\ ValidSuccess(KeyOf(req))
  /\ KeyOf(req) \notin DOMAIN _FAIL_CACHE

\* ------------------------------------------------------------------------
\* Claims about throttled responses
\* ------------------------------------------------------------------------
\* The request is answered from the failure cache in this step.
ThrottledNow == pc = "fail_cache_get" /\ pc' = "idle" /\ resp'.via = "fail_cache"

\* The request arrived more than the cooldown after the failure on its key
\* was recorded.
ArrivedAfterCooldown ==
  /\ KeyOf(req) \in DOMAIN atStart.fail
  /\ (atStart.t - atStart.fail[KeyOf(req)].ts) > Secs(atStart.fail[KeyOf(req)].retry)

\* What a request throttled on entry e with its second clock reading at u
\* is told to wait.
RetryAfterAt(e, u) == Max(1, IntOfTicks(Secs(e.retry) - (u - e.ts)))

\* A throttled response leaves the entry alone, and every request throttled
\* on the entry at an earlier clock reading was told to wait at least as long.
ThrottleKeepsCooldown ==
  ThrottledNow =>
    /\ _FAIL_CACHE' = _FAIL_CACHE
    /\ resp'.status = 429
    /\ resp'.retry_after = RetryAfterAt(_FAIL_CACHE[KeyOf(req)], now')
    /\ \A u \in _FAIL_CACHE[KeyOf(req)].ts..now' :
         RetryAfterAt(_FAIL_CACHE[KeyOf(req)], u) >= resp'.retry_after

\* A request arriving after the cooldown is not throttled: the entry is
\* evicted and the request goes on.
CooldownEnds ==
  (pc = "fail_cache_get" /\ pc' # "fail_cache_get" /\ ArrivedAfterCooldown) =>
    /\ pc' = "decide"
    /\ KeyOf(req) \notin DOMAIN _FAIL_CACHE'

\* C28 as stated: a throttled response never extends or resets the cooldown,
\* retry-after values do not increase, and the first request arriving after
\* the cooldown is not throttled and re-attempts the cascade.  A request with
\* forceSTT arriving then is not throttled either, but goes to the STT
\* backend without calling the selector.
C28_AsStated ==
  [][/\ ThrottleKeepsCooldown
     /\ CooldownEnds
     /\ (pc = "decide" /\ pc' # "decide" /\ ArrivedAfterCooldown) => calls' # <<>>]_vars

\* ------------------------------------------------------------------------
\* C28 amended: a throttled response never extends or resets the cooldown:
\* requests for a key during its cooldown leave the _FAIL_CACHE entry
\* unchanged and get non-increasing retry-after values; the first request
\* for the key arriving more than cooldown seconds after the failure was
\* recorded is not throttled, and re-attempts the cascade unless it sets
\* forceSTT, in which case it goes to the forced STT branch.
\* ------------------------------------------------------------------------
C28_ThrottleNeverExtends ==
  [][/\ ThrottleKeepsCooldown
     /\ CooldownEnds
     /\ (pc = "decide" /\ pc' # "decide" /\ ArrivedAfterCooldown) =>
          (calls' # <<>> <=> ~req.forceSTT)]_vars

\* A request throttled some time into the cooldown: it is told to wait less
\* than the cooldown, and the entry is as the failure left it.
C28_Witness ==
  /\ Answered
  /\ resp.via = "fail_cache"
  /\ KeyOf(req) \in DOMAIN _FAIL_CACHE
  /\ resp.retry_after < _FAIL_CACHE[KeyOf(req)].retry
  /\ _FAIL_CACHE[KeyOf(req)].ts = lastFailSet[KeyOf(req)].t
  /\ _FAIL_CACHE = atStart.fail

\* ------------------------------------------------------------------------
\* C29: fetch_transcript_segments always terminates, for any finite track
\* list and any failure behaviour of the caption source: a candidate's fetch
\* is invoked at most 5 times each time the track is a candidate, a track is
\* a candidate a bounded number of times (at most 4 here), get_transcript is
\* called at most 4 times, so the calls of one run are bounded by the length
\* of the track list, and the call ends by returning segments or no result,
\* raising nothing.
\* ------------------------------------------------------------------------
\* How often track i can be a candidate: once per find that returns it
\* (tier 1 or tier 3), once as the fallback of its translation (tier 2),
\* once in auto mode (tier 4) and once as last resort (tier 5).
Occurrences(w, lang, disable_translate, i) ==
  Cardinality({j \in 1..4 :
                 FindTrack(w, w.tracks[i].generated, PreferredLangs(lang)[j]) = i})
    + (IF TranslateCandidate(w, lang, disable_translate, i) /\ ~w.tracks[i].trans_raises
       THEN 1 ELSE 0)
    + (IF LowerCode(lang) = "auto" THEN 1 ELSE 0)
    + 1

CallsOf(log, c) == Cardinality({k \in 1..Len(log) : log[k] = c})

CallsBounded ==
  /\ ~sOut.raised
  /\ IsNone(sOut.ret) \/ DOMAIN sOut.ret.val = 1..Len(sOut.ret.val)
  /\ \A i \in 1..Len(sIn.w.tracks) :
       /\ Occurrences(sIn.w, sIn.lang, sIn.disable_translate, i) <= 4
       /\ CallsOf(sOut.log, CallFetch(i))
            <= 5 * Occurrences(sIn.w, sIn.lang, sIn.disable_translate, i)
       /\ CallsOf(sOut.log, CallFetchTranslated(i)) <= 5
       /\ CallsOf(sOut.log, CallTranslate(i, OrEn(sIn.lang))) <= 1
  /\ Cardinality({k \in 1..Len(sOut.log) : sOut.log[k].call = "get_transcript"}) <= 4
  /\ CallsOf(sOut.log, CallList) <= 1
  /\ Len(sOut.log) <= 1 + 8 + 4 + 26 * Len(sIn.w.tracks)

C29_TerminatesWithinBounds == SelRan => CallsBounded

\* Auto mode on a manual English track that is rate-limited for good and
\* whose translation fails: the track is a candidate in tiers 1, 2, 4 and 5
\* and is fetched twenty times before the call returns no result.
C29_Witness ==
  /\ Enumerated
  /\ sIn.lang = "auto"
  /\ ~sIn.disable_translate
  /\ sIn.w.tracks = <<TrackOf("en", FALSE, "fail", "fails")>>
  /\ sIn.w.direct = Forever429
  /\ CallsOf(sOut.log, CallFetch(1)) = 20
  /\ sOut.ret = NoneVal

====
